---- MODULE Spec2Model ----
(***************************************************************************)
(* Model of the solar data-acquisition daemon (src/source/implementacion.py):*)
(* the daily session state machine, its crash recovery and the scheduler    *)
(* loop that drives it.                                                     *)
(*                                                                          *)
(* The wall clock is scaled: a model day has HoursPerDay hours of           *)
(* MinutesPerHour minutes, and the operating window keeps the shape of the  *)
(* configured 05:00-18:00 window (whole hours, start < end, at least one    *)
(* hour outside the window before the start and one after the end, an hour *)
(* boundary strictly inside the window).  The program reads the second of   *)
(* the minute only through `now.second < 5` and sleeps either 1 s or at     *)
(* least 5 s, so the clock keeps the second as one of two classes: 0 for    *)
(* seconds below the limit, CYCLE_SECOND_LIMIT for the seconds from it on.  *)
(***************************************************************************)
EXTENDS Integers, Sequences, FiniteSets, TLC

\* ---------------------------------------------------------------- bounds
MaxDay == 2
MinutesPerHour == 2
\* rain pulses counted before the model stops counting
MaxRain == 1
\* daily files whose names the model distinguishes per calendar day
MaxFilesPerDay == 2
\* failures the environment injects in a row
MaxFaults == 6
MaxBuffer == 3
MaxFailures == 6
MaxClock == 12
ThermistorChannels == 4
\* consecutive errors counted before the environment stops injecting failures
MaxErrors == 12
\* iterations of the sampler that are followed, and reads that fail among them
MaxTicks == 61
MaxMisses == 1
\* seconds an iteration of the sampler lasts at most
MaxIteration == 7

\* ------------------------------------------------------ program constants
OPERATING_START_TIME == <<1, 0>>
OPERATING_END_TIME == <<3, 0>>
MAX_CONSECUTIVE_ERRORS == 10
INA228_ADDRESSES == {64, 65}
CYCLE_SECOND_LIMIT == 5
START_DELAY == 5
WATCHDOG_MINUTES == 5
SLEEP_ACTIVE == 1
SLEEP_IDLE == 5
REINIT_SLEEP == 30
HANDLER_SLEEP == 10
HANDLER_RESET_ERRORS == 5

\* the header row written by create_csv_file, one entry per column (the
\* degree sign of the temperature units is left out)
HEADER ==
    <<"V0[V]", "V1[V]", "I0[A]", "I1[A]", "P0[W]", "P1[W]", "E0[Wh]", "E1[Wh]",
      "Irr[W/m2]",
      "T0[C]", "T1[C]", "T2[C]", "T3[C]", "T4[C]", "T5[C]", "T6[C]", "T7[C]",
      "T8[C]", "T9[C]", "T10[C]", "T11[C]", "T12[C]", "T13[C]", "T14[C]",
      "T15[C]", "T16[C]", "T17[C]", "T18[C]", "T19[C]",
      "Rain[mm]", "Wind_Speed[m/s]", "Wind_Direction", "DHT_HUM[%]",
      "DHT_TEMP[C]", "DateTime">>

\* ----------------------------------------------------------------- clock
Days == 1..MaxDay
\* the day ends with the hour in which the window closes
HoursPerDay == OPERATING_END_TIME[1] + 1
MinutesPerDay == HoursPerDay * MinutesPerHour
LastMinute == MaxDay * MinutesPerDay - 1
SecondClasses == {0, CYCLE_SECOND_LIMIT}

\* the clock reading of minute number i (counted from day 1, 00:00)
At(i, s) ==
    [day |-> (i \div MinutesPerDay) + 1,
     hour |-> (i \div MinutesPerHour) % HoursPerDay,
     minute |-> i % MinutesPerHour,
     second |-> s]

MinuteIndex(t) == ((t.day - 1) * HoursPerDay + t.hour) * MinutesPerHour + t.minute

\* a sleep ends in the same minute, in the next one, or (the loop stalled:
\* a slow iteration, a long pause) in the one after it
Overshoot == {1, 2}

\* the clock readings possible once at least d seconds have passed since t
After(t, d) ==
    LET i == MinuteIndex(t)
        same == {At(i, s) : s \in {x \in SecondClasses :
                     /\ x >= t.second
                     /\ (x = 0 => d < CYCLE_SECOND_LIMIT)}}
        later(k) == {At(i + k, s) : s \in {x \in SecondClasses :
                     (k = 1 /\ t.second # 0 /\ d > CYCLE_SECOND_LIMIT) => x # 0}}
    IN  same \cup UNION {later(k) : k \in {k \in Overshoot : i + k <= LastMinute}}

\* ------------------------------------------------- operating-hours helpers
\* the test with the end of a non-crossing window counted as inside
within_hours_end_included(start_time, end_time, t) ==
    LET current_minutes == t.hour * MinutesPerHour + t.minute
        start_minutes == start_time[1] * MinutesPerHour + start_time[2]
        end_minutes == end_time[1] * MinutesPerHour + end_time[2]
    IN  IF end_minutes <= start_minutes
        THEN current_minutes >= start_minutes \/ current_minutes < end_minutes
        ELSE start_minutes <= current_minutes /\ current_minutes <= end_minutes

\* is_within_operating_hours for a window from start_time to end_time, both
\* <<hour, minute>> (the code parses them from "HH:MM")
within_operating_hours(start_time, end_time, t) ==
    LET current_minutes == t.hour * MinutesPerHour + t.minute
        start_minutes == start_time[1] * MinutesPerHour + start_time[2]
        end_minutes == end_time[1] * MinutesPerHour + end_time[2]
    IN  IF end_minutes <= start_minutes
        THEN current_minutes >= start_minutes \/ current_minutes < end_minutes
        ELSE start_minutes <= current_minutes /\ current_minutes < end_minutes

is_within_operating_hours(t) ==
    within_operating_hours(OPERATING_START_TIME, OPERATING_END_TIME, t)

is_time_to_create_daily_file(t) ==
    t.hour = OPERATING_START_TIME[1] /\ t.minute = OPERATING_START_TIME[2]

is_end_of_day(t) ==
    t.hour = OPERATING_END_TIME[1] /\ t.minute = OPERATING_END_TIME[2]

\* ------------------------------------------------------------ file system
\* A daily file is named data_<date>_<time>.csv; the model names it by its
\* date and the order of creation within that date.
FileNames == Days \X (1..MaxFilesPerDay)
NoFile == <<0, 0>>
NoDay == 0 - 1
NoMinute == 0 - 1

\* "absent": never created; "present"; "removed": deleted from outside.
\* A row is stamped with the clock reading of the cycle that writes it, so
\* only the rows of the current clock minute can still get a companion: of
\* the rows the model keeps their number for the current minute, capped at 2.
AbsentFile == [state |-> "absent", first_line |-> <<>>, rows_this_minute |-> 0]

\* `modified` lists the present files by modification time, oldest first
Touch(w, f) ==
    [w EXCEPT !.modified = Append(SelectSeq(@, LAMBDA g : g # f), f)]

Exists(w, f) == f \in FileNames /\ w.files[f].state = "present"

Range(s) == {s[i] : i \in 1..Len(s)}

\* ------------------------------------------------------------- checkpoint
\* A checkpoint file holds at most one saved state: <<>> when the file does
\* not exist, <<state>> otherwise.  The calendar day stands for the pair
\* (current_day, current_year).
NoState == <<>>

save_system_state(w, t) ==
    LET state == [current_csv_file |-> w.current_csv_file,
                  file_recording_active |-> w.file_recording_active,
                  last_file_creation_day |-> w.last_file_creation_day,
                  current_day |-> t.day,
                  rain_count_total |-> w.rain_count_total]
    IN  [w EXCEPT !.state_file = <<state>>, !.backup_state_file = <<state>>]

load_system_state(w) ==
    IF w.state_file # NoState THEN w.state_file
    ELSE IF w.backup_state_file # NoState THEN w.backup_state_file
    ELSE NoState

\* the acceptance test without the comparison of the calendar day
should_continue_on_any_day(saved, w, t) ==
    IF saved = NoState THEN FALSE
    ELSE IF ~is_within_operating_hours(t) THEN FALSE
    ELSE IF saved[1].current_csv_file = NoFile
            \/ ~Exists(w, saved[1].current_csv_file) THEN FALSE
    ELSE IF LET first_line == w.files[saved[1].current_csv_file].first_line
            IN  first_line = <<>> \/ "DateTime" \notin Range(first_line) THEN FALSE
    ELSE IF ~saved[1].file_recording_active THEN FALSE
    ELSE TRUE

should_continue_with_existing_file(saved, w, t) ==
    IF saved = NoState THEN FALSE
    ELSE IF saved[1].current_day # t.day THEN FALSE
    ELSE IF ~is_within_operating_hours(t) THEN FALSE
    ELSE IF saved[1].current_csv_file = NoFile
            \/ ~Exists(w, saved[1].current_csv_file) THEN FALSE
    ELSE IF LET first_line == w.files[saved[1].current_csv_file].first_line
            IN  first_line = <<>> \/ "DateTime" \notin Range(first_line) THEN FALSE
    ELSE IF ~saved[1].file_recording_active THEN FALSE
    ELSE TRUE

restore_system_state(w, saved) ==
    [w EXCEPT !.current_csv_file = saved[1].current_csv_file,
              !.file_recording_active = saved[1].file_recording_active,
              !.last_file_creation_day = saved[1].last_file_creation_day,
              !.rain_count_total = saved[1].rain_count_total]

\* `removable` tells whether os.remove succeeds; its exception is swallowed
cleanup_state_file(w, removable) ==
    IF removable
    THEN [w EXCEPT !.state_file = NoState, !.backup_state_file = NoState]
    ELSE w

\* the same-day file modified last, or NoFile when the day has no file
find_current_day_file(w, t) ==
    LET todays == SelectSeq(w.modified, LAMBDA f : f[1] = t.day /\ Exists(w, f))
    IN  IF todays = <<>> THEN NoFile ELSE todays[Len(todays)]

\* --------------------------------------------------------- file creation
UsedNames(w, d) == {n \in 1..MaxFilesPerDay : w.files[<<d, n>>].state # "absent"}

\* create_csv_file with `opened` telling whether the file could be opened for
\* writing, and `again` naming the file this very handler created in the same
\* second (NoFile when there is none): the name is then the same and the file
\* is truncated and rewritten.
create_csv_file(w, t, opened, again) ==
    LET used == UsedNames(w, t.day)
        name == IF again # NoFile THEN again ELSE <<t.day, Cardinality(used) + 1>>
    IN  IF name \notin FileNames
        THEN [w |-> [w EXCEPT !.overflow = TRUE], ret |-> FALSE]
        ELSE IF ~opened
        THEN [w |-> [w EXCEPT !.current_csv_file = name,
                              !.events = @ \cup {"create_failed"}],
              ret |-> FALSE]
        ELSE LET w1 == [Touch(w, name) EXCEPT
                     !.current_csv_file = name,
                     !.files[name] = [state |-> "present", first_line |-> HEADER,
                                      rows_this_minute |-> 0],
                     !.rain_count_total = 0,
                     !.ina_energy = [a \in INA228_ADDRESSES |->
                                        IF w.ina_sensors[a] THEN 0 ELSE @[a]],
                     !.file_recording_active = TRUE,
                     !.created = name,
                     !.events = @ \cup {"created"}]
             IN  [w |-> save_system_state(w1, t), ret |-> TRUE]

\* the directory scan and the creation without the check of the window
check_and_create_at_any_time(w, t, opened) ==
    IF find_current_day_file(w, t) # NoFile
    THEN [w |-> [w EXCEPT !.current_csv_file = find_current_day_file(w, t),
                          !.file_recording_active = TRUE,
                          !.last_file_creation_day = t.day,
                          !.events = @ \cup {"adopted"}],
          ret |-> TRUE]
    ELSE IF w.current_csv_file # NoFile /\ Exists(w, w.current_csv_file)
            /\ w.file_recording_active
    THEN [w |-> w, ret |-> FALSE]
    ELSE IF w.last_file_creation_day = t.day THEN [w |-> w, ret |-> FALSE]
    ELSE create_csv_file(w, t, opened, NoFile)

check_and_create_missing_file(w, t, opened) ==
    IF ~is_within_operating_hours(t) THEN [w |-> w, ret |-> FALSE]
    ELSE IF find_current_day_file(w, t) # NoFile
    THEN [w |-> [w EXCEPT !.current_csv_file = find_current_day_file(w, t),
                          !.file_recording_active = TRUE,
                          !.last_file_creation_day = t.day,
                          !.events = @ \cup {"adopted"}],
          ret |-> TRUE]
    ELSE IF w.current_csv_file # NoFile /\ Exists(w, w.current_csv_file)
            /\ w.file_recording_active
    THEN [w |-> w, ret |-> FALSE]
    ELSE IF w.last_file_creation_day = t.day THEN [w |-> w, ret |-> FALSE]
    ELSE create_csv_file(w, t, opened, NoFile)

\* a start-up that creates a file whenever no checkpoint is restored
initialize_system_without_scan(w, t, opened) ==
    LET saved_state == load_system_state(w)
    IN  IF saved_state # NoState /\ should_continue_with_existing_file(saved_state, w, t)
        THEN LET w1 == restore_system_state(w, saved_state)
             IN  [w |-> [w1 EXCEPT
                       !.file_recording_active = is_within_operating_hours(t),
                       !.events = @ \cup {"resumed"}],
                  ret |-> TRUE]
        ELSE IF ~is_within_operating_hours(t) THEN [w |-> w, ret |-> FALSE]
        ELSE create_csv_file([w EXCEPT !.current_csv_file = NoFile,
                                       !.file_recording_active = FALSE,
                                       !.last_file_creation_day = NoDay],
                             t, opened, NoFile)

initialize_system_with_enhanced_recovery(w, t, opened) ==
    LET saved_state == load_system_state(w)
    IN  IF saved_state # NoState /\ should_continue_with_existing_file(saved_state, w, t)
        THEN LET w1 == restore_system_state(w, saved_state)
             IN  [w |-> [w1 EXCEPT
                       !.file_recording_active = is_within_operating_hours(t),
                       !.events = @ \cup {"resumed"}],
                  ret |-> TRUE]
        ELSE check_and_create_missing_file(
                 [w EXCEPT !.current_csv_file = NoFile,
                           !.file_recording_active = FALSE,
                           !.last_file_creation_day = NoDay],
                 t, opened)

enhanced_main_loop_check(w, t, opened) ==
    IF /\ t.minute % WATCHDOG_MINUTES = 0
       /\ is_within_operating_hours(t)
       /\ \/ w.current_csv_file = NoFile
          \/ ~Exists(w, w.current_csv_file)
          \/ ~w.file_recording_active
    THEN LET r == check_and_create_missing_file(
                      [w EXCEPT !.events = @ \cup {"watchdog"}], t, opened)
         IN  [w |-> r.w, ret |-> IF r.ret THEN "file_created" ELSE "normal"]
    ELSE [w |-> w, ret |-> "normal"]

\* an end of day that closes the session and leaves the checkpoint files
process_end_of_day_keeping_checkpoint(w, t, removable) ==
    IF w.current_csv_file = NoFile \/ ~Exists(w, w.current_csv_file) THEN w
    ELSE save_system_state([w EXCEPT !.file_recording_active = FALSE,
                                     !.current_csv_file = NoFile,
                                     !.events = @ \cup {"end_of_day"}], t)

process_end_of_day(w, t, removable) ==
    IF w.current_csv_file = NoFile \/ ~Exists(w, w.current_csv_file) THEN w
    ELSE LET w1 == save_system_state([w EXCEPT !.file_recording_active = FALSE], t)
         IN  cleanup_state_file([w1 EXCEPT !.current_csv_file = NoFile,
                                           !.events = @ \cup {"end_of_day"}],
                                removable)

\* ------------------------------------------------------------- hardware
\* initialize_hardware: the counters are zeroed first; `ok` tells whether the
\* GPIO, I2C and ADC set-up succeeded, `avail` which power meters answered
\* (setup_ina228 resets the accumulators of those).
initialize_hardware(w, ok, avail) ==
    LET w1 == [w EXCEPT !.rain_count = 0, !.rain_count_total = 0]
    IN  IF ~ok THEN [w |-> w1, ret |-> FALSE]
        ELSE [w |-> [w1 EXCEPT
                  !.ina_sensors = [a \in INA228_ADDRESSES |-> a \in avail],
                  !.ina_energy = [a \in INA228_ADDRESSES |-> IF a \in avail THEN 0 ELSE @[a]]],
              ret |-> TRUE]

\* ------------------------------------------------------ measurement cycle
\* what can happen to the telemetry send of a cycle
SendFaults == {"send_failed", "send_raised", "send_killed"}

\* The recording part of record_measurement at clock reading t (lines
\* 1385-1547).  `fault` names what fails in this
\* cycle: "create" (a file cannot be opened for writing), "open" (the daily
\* file cannot be opened for appending), "write" (writing the row raises),
\* "send_failed" / "send_raised" (the telemetry send returns False / raises),
\* "send_killed" (the process is killed while the send is in progress).
\* writer.writerow puts the row into the buffer of the file object; the row
\* reaches the file when the with-block is left and the file is closed, and
\* the send is made inside the with-block (lines 1454-1536).
record_row(w, t, fault) ==
         LET r == IF ~Exists(w, w.current_csv_file)
                  THEN create_csv_file(w, t, fault # "create", NoFile)
                  ELSE [w |-> w, ret |-> TRUE]
             f == r.w.current_csv_file
         IN  IF ~r.ret THEN [w |-> r.w, ret |-> FALSE]
             ELSE IF fault = "open"
             THEN [w |-> [r.w EXCEPT !.events = @ \cup {"cycle_failed"}], ret |-> FALSE]
             ELSE IF fault = "write"
             THEN [w |-> [r.w EXCEPT !.rain_count = 0,
                                     !.events = @ \cup {"cycle_failed"}],
                   ret |-> FALSE]
             ELSE LET buffered == [r.w EXCEPT !.rain_count = 0]
                      sent == [buffered EXCEPT !.events =
                                  @ \cup (IF fault \in SendFaults THEN {fault} ELSE {})]
                      closed == [Touch(sent, f) EXCEPT
                          !.files[f].rows_this_minute = IF @ = 0 THEN 1 ELSE 2,
                          !.events = @ \cup {"row"}]
                  IN  IF fault = "send_killed" THEN [w |-> sent, ret |-> FALSE]
                      ELSE [w |-> save_system_state(closed, t), ret |-> TRUE]

\* the cycle without the check of the operating window
record_measurement_any_hour(w, t, fault) ==
    IF ~w.file_recording_active \/ w.current_csv_file = NoFile
    THEN [w |-> w, ret |-> TRUE]
    ELSE record_row(w, t, fault)

\* record_measurement: outside the operating window, and without an active
\* recording, the cycle only displays its reads and returns True (lines
\* 1366-1383)
record_measurement(w, t, fault) ==
    IF ~is_within_operating_hours(t) THEN [w |-> w, ret |-> TRUE]
    ELSE IF ~w.file_recording_active \/ w.current_csv_file = NoFile
    THEN [w |-> w, ret |-> TRUE]
    ELSE record_row(w, t, fault)

\* ------------------------------------------------------- scheduler loop
Faults == {"none", "create", "open", "write", "cleanup", "raise_start", "raise_end",
           "hardware"} \cup SendFaults

\* the measurement branch without its minute guards
MeasurementDueEverySecond(w, loc, t) == t.second < CYCLE_SECOND_LIMIT

\* the guards of the measurement branch (lines 1739-1744)
MeasurementDue(w, loc, t) ==
    /\ t.minute # w.last_measurement_minute
    /\ t.minute # loc.last_minute_processed
    /\ t.second < CYCLE_SECOND_LIMIT

\* a re-initialization only above the threshold
reinitialize_above(errors) == errors > MAX_CONSECUTIVE_ERRORS

\* the test before the re-initialization (line 1761)
reinitialize(errors) == errors >= MAX_CONSECUTIVE_ERRORS

\* One iteration of main's while-loop at clock reading t.  w holds the
\* globals and the file system, loc the locals of main.  `due` stands for
\* loop_counter % 300 == 0, `fault` for what fails, `avail` for the power
\* meters a re-initialization finds,
\* `same_second` whether two file creations of this iteration fall into the
\* same second of the clock.
\* "cleanup" is a checkpoint file that cannot be removed, "hardware" a failing
\* re-initialization, "raise_start" an unexpected exception raised after the watchdog check,
\* "raise_end" one raised after the branch taken; both reach the loop's
\* catch-all handler.
MainIteration(w, loc, t, due, fault, avail, same_second) ==
    LET \* watchdog (lines 1706-1710)
        chk == IF due THEN enhanced_main_loop_check(w, t, fault # "create")
               ELSE [w |-> w, ret |-> "normal"]
        e1 == IF chk.ret = "file_created" THEN 0 ELSE loc.consecutive_errors
        w1 == chk.w
        \* the if / elif / elif chain (lines 1712-1758)
        start == is_time_to_create_daily_file(t) /\ t.day # w1.last_file_creation_day
        cyc == ~start /\ ~is_end_of_day(t) /\ MeasurementDue(w1, loc, t)
        \* a file the watchdog created within the same second has the same name
        cr == create_csv_file(w1, t, fault # "create",
                              IF same_second THEN w1.created ELSE NoFile)
        rm == record_measurement(w1, t, fault)
        w2 == IF start
              THEN IF cr.ret
                   THEN [cr.w EXCEPT !.last_file_creation_day = t.day,
                                     !.last_measurement_minute = NoMinute,
                                     !.events = @ \cup {"start_minute"}]
                   ELSE cr.w
              ELSE IF is_end_of_day(t) THEN process_end_of_day(w1, t, fault # "cleanup")
              ELSE IF cyc
              THEN IF rm.ret
                   THEN [rm.w EXCEPT !.last_measurement_minute = t.minute,
                                     !.events = @ \cup {"cycle_started", "cycle"}]
                   ELSE [rm.w EXCEPT !.events = @ \cup {"cycle_started"}]
              ELSE w1
        e2 == IF start THEN (IF cr.ret THEN 0 ELSE e1 + 1)
              ELSE IF is_end_of_day(t) THEN 0
              ELSE IF cyc THEN (IF rm.ret THEN 0 ELSE e1 + 1)
              ELSE e1
        lmp2 == IF cyc THEN t.minute ELSE loc.last_minute_processed
        \* re-initialization (lines 1760-1768)
        reinit == reinitialize(e2)
        hw == initialize_hardware(w2, fault # "hardware", avail)
        w3 == IF reinit
              THEN [hw.w EXCEPT !.events =
                       @ \cup {"reinit"} \cup (IF hw.ret THEN {"reinitialized"} ELSE {})]
              ELSE w2
        e3 == IF reinit /\ hw.ret THEN 0 ELSE e2
        nap == (IF reinit THEN REINIT_SLEEP ELSE 0)
               + (IF is_within_operating_hours(t) THEN SLEEP_ACTIVE ELSE SLEEP_IDLE)
        \* hour bookkeeping (lines 1776-1778)
        newhour == t.hour # loc.last_hour_processed
        \* the catch-all handler (lines 1780-1786)
        handled(wx, ex, lmpx) ==
            [w |-> [wx EXCEPT !.last_measurement_minute =
                                  IF ex + 1 > HANDLER_RESET_ERRORS THEN NoMinute ELSE @,
                              !.events = @ \cup {"exception"}],
             loc |-> [consecutive_errors |-> ex + 1,
                      last_minute_processed |->
                          IF ex + 1 > HANDLER_RESET_ERRORS THEN NoMinute ELSE lmpx,
                      last_hour_processed |-> loc.last_hour_processed],
             nap |-> HANDLER_SLEEP]
    IN  IF fault = "raise_start" THEN handled(w1, e1, loc.last_minute_processed)
        ELSE IF fault = "raise_end" THEN handled(w2, e2, lmp2)
        ELSE [w |-> w3,
              loc |-> [consecutive_errors |-> e3,
                       last_minute_processed |-> IF newhour THEN NoMinute ELSE lmp2,
                       last_hour_processed |-> t.hour],
              nap |-> nap]

\* ------------------------------------------------------------------ state
VARIABLES
    now,                     \* the wall clock
    pc,                      \* "down", "loop" (about to run an iteration), "sleep"
    sleep_for,               \* seconds the pending sleep lasts at least
    current_csv_file, file_recording_active, last_file_creation_day,
    last_measurement_minute, rain_count, rain_count_total,
    ina_sensors,             \* which power meters initialize_hardware found
    ina_energy,              \* 0: accumulator just reset, 1: energy accumulated
    consecutive_errors, last_minute_processed, last_hour_processed,
    files,                   \* the output directory
    modified,                \* its present files, by modification time
    state_file, backup_state_file,
    events,                  \* what the last start-up or iteration did
    resumed,                 \* the running process resumed its session from
                             \* the checkpoint earlier this day
    started_this_minute,     \* the loop's start-minute branch has created a
                             \* file earlier in the current minute
    cycled_this_minute,      \* a measurement cycle has been started earlier in
                             \* the current minute
    closed_file,             \* the file of the session that the process's
                             \* last end closed, when that end was an orderly
                             \* shutdown inside the window (NoFile otherwise)
    call,                    \* a function applied on its own: its name and
                             \* arguments (<<>> when none is)
    ret,                     \* what it returned (<<>> before it has)
    sink,                    \* the globals of the telemetry sender
    sink_clock,              \* its clock, in hours
    sent,                    \* what the last send did (<<>> before the first)
    failed_sends,            \* how many sends in a row have returned False
    hardware_lock,           \* "free" or the thread that holds the lock
    thread,                  \* where each thread is in its reads of the
                             \* multiplexed channel
    mux,                     \* the channel the multiplexers select
    program,                 \* the steps a thread of the sender has still to
                             \* take in the entry point it is in
    held,                    \* the locks that thread holds
    step,                    \* the step it took last
    buffers,                 \* the buffers of the aggregator
    pushed,                  \* all that was appended to each, oldest first
    data_lock,               \* "free" or the thread that holds the lock
    sampler,                 \* where measurement_thread is
    reader,                  \* where the main thread is in a read of the
                             \* buffers
    running,                 \* the run flag
    measure_thread,          \* the sampler thread: alive or not, and the
                             \* seconds until it tests the flag next
    main_thread,             \* where main is, and the seconds it has waited
                             \* in the join
    session,                 \* whether a file is being recorded and whether
                             \* the sink was initialized
    log,                     \* what the shutdown has done, in order
    aging,                   \* the thermistor T0 and its cell: whether the
                             \* signal has stopped giving valid samples, the
                             \* cell of the last row, the parity of the
                             \* minute
    pulses,                  \* the minute's rain counter between the callback
                             \* and the cycle: rain_count, the pulses the
                             \* callback has counted, the sum of the rows,
                             \* and where each of the two threads is
    hardware,                \* where the main thread is in a
                             \* re-initialization of the hardware (0: in
                             \* none), and how many it has run
    locks,                   \* the three locks and the two threads: who owns
                             \* each lock, where each thread is in its
                             \* program, and influx_initialized
    forwarding               \* the process and the remote store: whether the
                             \* process is up, influx_initialized, whether
                             \* the store can be reached, whether a point
                             \* was delivered since it last could not, and
                             \* the parity of the minute

vars == <<now, pc, sleep_for, current_csv_file, file_recording_active,
          last_file_creation_day, last_measurement_minute, rain_count,
          rain_count_total, ina_sensors, ina_energy, consecutive_errors,
          last_minute_processed, last_hour_processed, files, modified,
          state_file, backup_state_file, events, resumed, started_this_minute,
          cycled_this_minute, closed_file, call, ret,
          sink, sink_clock, sent, failed_sends,
          hardware_lock, thread, mux, program, held, step,
          buffers, pushed, data_lock, sampler, reader,
          running, measure_thread, main_thread, session, log,
          forwarding, aging, pulses, hardware, locks>>

\* the variables of the scheduler, and those it does not touch
scheduler == <<now, pc, sleep_for, current_csv_file, file_recording_active,
               last_file_creation_day, last_measurement_minute, rain_count,
               rain_count_total, ina_sensors, ina_energy, consecutive_errors,
               last_minute_processed, last_hour_processed, files, modified,
               state_file, backup_state_file, events, resumed,
               started_this_minute, cycled_this_minute, closed_file>>

calls == <<call, ret>>

sender == <<sink, sink_clock, sent, failed_sends>>

arbiter == <<hardware_lock, thread, mux>>

walker == <<program, held, step>>

sampling == <<buffers, pushed, data_lock, sampler, reader>>

stopping == <<running, measure_thread, main_thread, session, log>>

extra == <<forwarding, aging, pulses, hardware, locks>>

further == <<walker, sampling, stopping, extra>>

others == <<calls, sender, arbiter, further>>

CallsIdle == call = <<>> /\ ret = <<>>

\* the sender after the init_influxdb() of initialize_hardware has passed at
\* hour 0: without it record_measurement never sends
SenderIdle ==
    /\ sink = [influx_client |-> TRUE, write_api |-> TRUE,
               consecutive_failures |-> 0, last_successful_write |-> 0,
               connection_init_time |-> 0]
    /\ sink_clock = 0
    /\ sent = <<>>
    /\ failed_sends = 0

\* no thread is reading the multiplexed channel; a thread is in its
\* section-th read (0: in none), holds the lock or waits for it, and has
\* done the first done steps of the read
ArbiterIdle ==
    /\ hardware_lock = "free"
    /\ thread = [t \in {"main", "sampler"} |->
                    [section |-> 0, held |-> FALSE, done |-> 0]]
    /\ mux = 0

\* a step that is none
NoStep == [do |-> "none", what |-> ""]

WalkerIdle == program = <<>> /\ held = {} /\ step = NoStep

\* the buffers as created, the sampler before its first iteration
SamplingIdle ==
    /\ buffers = [b \in {"dht_temps", "dht_hums", "wind_speeds_second", "T0"} |-> <<>>]
    /\ pushed = buffers
    /\ data_lock = "free"
    /\ sampler = [pc |-> "wind", stage |-> "reads", tick |-> 0, pending |-> <<>>,
                  misses |-> 0]
    /\ reader = "idle"

\* main before it starts the sampler
StoppingIdle ==
    /\ running = FALSE
    /\ measure_thread = [alive |-> FALSE, busy |-> 0]
    /\ main_thread = [pc |-> "down", waited |-> 0]
    /\ session = [recording |-> FALSE, influx_initialized |-> FALSE]
    /\ log = <<>>

ForwardingIdle ==
    forwarding = [up |-> FALSE, influx_initialized |-> FALSE, reachable |-> FALSE,
                  delivered |-> FALSE, minute |-> 0]

AgingIdle == aging = [dead |-> FALSE, cell |-> <<>>, minute |-> 0]

PulsesIdle ==
    pulses = [rain_count |-> 0, counted |-> 0, reported |-> 0, rows |-> 0,
              cycle |-> "idle", rain_mm_minute |-> 0,
              callback |-> "idle", loaded |-> 0]

HardwareIdle == hardware = [phase |-> 0, times |-> 0]

LocksIdle ==
    locks = [owner |-> [l \in {"hardware_lock", "data_lock", "influx_lock"} |-> "free"],
             at |-> [t \in {"main", "sampler"} |-> 1],
             influx_initialized |-> FALSE]

ExtraIdle ==
    ForwardingIdle /\ AgingIdle /\ PulsesIdle /\ HardwareIdle /\ LocksIdle

FurtherIdle == WalkerIdle /\ SamplingIdle /\ StoppingIdle /\ ExtraIdle

OthersIdle == CallsIdle /\ SenderIdle /\ ArbiterIdle /\ FurtherIdle

memory == <<current_csv_file, file_recording_active, last_file_creation_day,
            last_measurement_minute, rain_count, rain_count_total, ina_sensors,
            consecutive_errors, last_minute_processed, last_hour_processed>>

disk == <<files, modified, state_file, backup_state_file>>

\* the files the session or a checkpoint refers to
Kept ==
    {current_csv_file}
        \cup {state_file[i].current_csv_file : i \in DOMAIN state_file}
        \cup {backup_state_file[i].current_csv_file : i \in DOMAIN backup_state_file}

\* The directory as the program can still observe it once the clock reads t:
\* rows written in an earlier minute are no longer rows of the current
\* minute, and a file of an earlier day is looked at only through a path
\* that refers to it (the directory scan matches the current date only).
Aged(t) ==
    [f \in FileNames |->
        IF f[1] < t.day /\ f \notin Kept THEN AbsentFile
        ELSE IF MinuteIndex(t) # MinuteIndex(now)
        THEN [files[f] EXCEPT !.rows_this_minute = 0]
        ELSE files[f]]

AgedOrder(t) == SelectSeq(modified, LAMBDA f : f[1] >= t.day \/ f \in Kept)

\* the globals and the file system as one value, for the operators above
World ==
    [current_csv_file |-> current_csv_file,
     file_recording_active |-> file_recording_active,
     last_file_creation_day |-> last_file_creation_day,
     last_measurement_minute |-> last_measurement_minute,
     rain_count |-> rain_count,
     rain_count_total |-> rain_count_total,
     ina_sensors |-> ina_sensors,
     ina_energy |-> ina_energy,
     files |-> files,
     modified |-> modified,
     state_file |-> state_file,
     backup_state_file |-> backup_state_file,
     created |-> NoFile,
     overflow |-> FALSE,
     events |-> {}]

Locals ==
    [consecutive_errors |-> consecutive_errors,
     last_minute_processed |-> last_minute_processed,
     last_hour_processed |-> last_hour_processed]

Store(w) ==
    /\ ~w.overflow
    /\ current_csv_file' = w.current_csv_file
    /\ file_recording_active' = w.file_recording_active
    /\ last_file_creation_day' = w.last_file_creation_day
    /\ last_measurement_minute' = w.last_measurement_minute
    /\ rain_count' = w.rain_count
    /\ rain_count_total' = w.rain_count_total
    /\ ina_sensors' = w.ina_sensors
    /\ ina_energy' = w.ina_energy
    /\ files' = w.files
    /\ modified' = w.modified
    /\ state_file' = w.state_file
    /\ backup_state_file' = w.backup_state_file
    /\ events' = w.events

\* the module-level initial values of the globals (lines 98-99, 180-190)
FreshMemory ==
    /\ current_csv_file' = NoFile
    /\ file_recording_active' = FALSE
    /\ last_file_creation_day' = NoDay
    /\ last_measurement_minute' = NoMinute
    /\ rain_count' = 0
    /\ rain_count_total' = 0
    /\ ina_sensors' = [a \in INA228_ADDRESSES |-> FALSE]
    /\ consecutive_errors' = 0
    /\ last_minute_processed' = NoMinute
    /\ last_hour_processed' = 0 - 1

InitScheduler ==
    /\ now = At(0, 0)
    /\ pc = "down"
    /\ sleep_for = 0
    /\ current_csv_file = NoFile
    /\ file_recording_active = FALSE
    /\ last_file_creation_day = NoDay
    /\ last_measurement_minute = NoMinute
    /\ rain_count = 0
    /\ rain_count_total = 0
    /\ ina_sensors = [a \in INA228_ADDRESSES |-> FALSE]
    /\ ina_energy = [a \in INA228_ADDRESSES |-> 0]
    /\ consecutive_errors = 0
    /\ last_minute_processed = NoMinute
    /\ last_hour_processed = 0 - 1
    /\ files = [f \in FileNames |-> AbsentFile]
    /\ modified = <<>>
    /\ state_file = NoState
    /\ backup_state_file = NoState
    /\ events = {}
    /\ resumed = FALSE
    /\ started_this_minute = FALSE
    /\ cycled_this_minute = FALSE
    /\ closed_file = NoFile

Init == InitScheduler /\ OthersIdle

\* ---------------------------------------------------------------- actions
\* main up to the loop (lines 1669-1696): hardware, recovery, locals, and the
\* start delay left pending.
Start(faults, meters) ==
    /\ pc = "down"
    /\ \E avail \in meters, fault \in faults \cap {"none", "create"} :
         \E hw \in {initialize_hardware(World, TRUE, avail)} :
           \E r \in {initialize_system_with_enhanced_recovery(hw.w, now, fault # "create")} :
             /\ Store([r.w EXCEPT !.events = @ \cup {"startup"}])
             /\ resumed' = ("resumed" \in r.w.events)
    /\ consecutive_errors' = 0
    /\ last_minute_processed' = NoMinute
    /\ last_hour_processed' = 0 - 1
    /\ pc' = "sleep"
    /\ sleep_for' = START_DELAY
    /\ UNCHANGED <<now, started_this_minute, cycled_this_minute>>
    /\ UNCHANGED closed_file
    /\ UNCHANGED others

\* main when initialize_hardware returns False (lines 1669-1671): it prints
\* and returns, and the process has ended before the loop
StartFails ==
    /\ pc = "down"
    /\ \E hw \in {initialize_hardware(World, FALSE, {})} : ~hw.ret
    /\ pc' = "down"
    /\ sleep_for' = 0
    /\ FreshMemory
    /\ events' = {"hardware_failed"}
    /\ resumed' = FALSE
    /\ UNCHANGED <<now, ina_energy, disk, started_this_minute,
                   cycled_this_minute>>
    /\ closed_file' = NoFile
    /\ UNCHANGED others

\* one iteration of the while-loop, up to its sleep
Loop(faults, meters) ==
    /\ pc = "loop"
    /\ \E due \in BOOLEAN, fault \in faults :
         \E same_second \in (IF due /\ is_time_to_create_daily_file(now)
                              THEN BOOLEAN ELSE {FALSE}) :
           \E avail \in (IF consecutive_errors + 1 >= MAX_CONSECUTIVE_ERRORS
                         THEN meters
                         ELSE {{a \in INA228_ADDRESSES : ina_sensors[a]}}) :
             \E r \in {MainIteration(World, Locals, now, due, fault, avail, same_second)} :
                 /\ Store(r.w)
                 /\ consecutive_errors' = r.loc.consecutive_errors
                 /\ last_minute_processed' = r.loc.last_minute_processed
                 /\ last_hour_processed' = r.loc.last_hour_processed
                 /\ sleep_for' = r.nap
                 /\ started_this_minute' =
                        (started_this_minute \/ "start_minute" \in r.w.events)
                 /\ cycled_this_minute' =
                        (cycled_this_minute \/ "cycle_started" \in r.w.events)
    /\ pc' = "sleep"
    /\ UNCHANGED <<now, resumed>>
    /\ UNCHANGED <<closed_file, others>>

\* time.sleep: the clock moves on; the power meters accumulate energy
Sleep ==
    /\ pc = "sleep"
    /\ now' \in After(now, sleep_for)
    /\ ina_energy' = [a \in INA228_ADDRESSES |-> IF ina_sensors[a] THEN 1 ELSE ina_energy[a]]
    /\ pc' = "loop"
    /\ sleep_for' = 0
    /\ events' = {}
    /\ files' = Aged(now')
    /\ modified' = AgedOrder(now')
    /\ resumed' = (resumed /\ now'.day = now.day)
    /\ started_this_minute' = (started_this_minute /\ MinuteIndex(now') = MinuteIndex(now))
    /\ cycled_this_minute' = (cycled_this_minute /\ MinuteIndex(now') = MinuteIndex(now))
    /\ UNCHANGED <<memory, state_file, backup_state_file>>
    /\ UNCHANGED <<closed_file, others>>

\* the process dies (power loss, kill): memory is lost, the disk stays
Crash ==
    /\ pc # "down"
    /\ pc' = "down"
    /\ sleep_for' = 0
    /\ FreshMemory
    /\ events' = {}
    /\ resumed' = FALSE
    /\ UNCHANGED <<now, ina_energy, disk, started_this_minute,
                   cycled_this_minute>>
    /\ closed_file' = NoFile
    /\ UNCHANGED others

\* the process is killed (or the power is lost) while a measurement cycle is
\* inside send_measurement_to_influx (line 1534): what the iteration did up
\* to there stays on disk, the memory and the file object's buffer are lost
KilledInSend ==
    /\ pc = "loop"
    /\ \E r \in {MainIteration(World, Locals, now, FALSE, "send_killed",
                                {a \in INA228_ADDRESSES : ina_sensors[a]}, FALSE)} :
         /\ "send_killed" \in r.w.events
         /\ files' = r.w.files
         /\ modified' = r.w.modified
         /\ state_file' = r.w.state_file
         /\ backup_state_file' = r.w.backup_state_file
    /\ pc' = "down"
    /\ sleep_for' = 0
    /\ FreshMemory
    /\ events' = {"cycle_started", "send_killed"}
    /\ resumed' = FALSE
    /\ cycled_this_minute' = TRUE
    /\ UNCHANGED <<now, ina_energy, started_this_minute>>
    /\ closed_file' = NoFile
    /\ UNCHANGED others

\* Ctrl+C: main leaves the loop and its finally block closes the session
\* (lines 1788-1807); the process ends
Shutdown(faults) ==
    /\ pc # "down"
    /\ \E fault \in faults \cap {"none", "cleanup"} :
         \E w \in {IF file_recording_active /\ current_csv_file # NoFile
                     THEN process_end_of_day(World, now, fault # "cleanup")
                     ELSE World} :
             /\ state_file' = w.state_file
             /\ backup_state_file' = w.backup_state_file
             /\ events' = w.events
    /\ pc' = "down"
    /\ sleep_for' = 0
    /\ FreshMemory
    /\ resumed' = FALSE
    /\ UNCHANGED <<now, ina_energy, files, modified, started_this_minute,
                   cycled_this_minute>>
    /\ closed_file' = IF /\ file_recording_active /\ current_csv_file # NoFile
                    /\ Exists(World, current_csv_file)
                    /\ is_within_operating_hours(now)
                 THEN current_csv_file ELSE NoFile
    /\ UNCHANGED others

\* time passes while the process is down
Wait ==
    /\ pc = "down"
    /\ now' \in After(now, 0) \ {now}
    /\ files' = Aged(now')
    /\ modified' = AgedOrder(now')
    /\ started_this_minute' = (started_this_minute /\ MinuteIndex(now') = MinuteIndex(now))
    /\ cycled_this_minute' = (cycled_this_minute /\ MinuteIndex(now') = MinuteIndex(now))
    /\ UNCHANGED <<pc, sleep_for, memory, ina_energy, state_file,
                   backup_state_file, events, resumed>>
    /\ UNCHANGED <<closed_file, others>>

\* the rain gauge callback (lines 502-507)
rain_pulse ==
    /\ pc # "down"
    /\ rain_count < MaxRain /\ rain_count_total < MaxRain
    /\ rain_count' = rain_count + 1
    /\ rain_count_total' = rain_count_total + 1
    /\ UNCHANGED <<now, pc, sleep_for, current_csv_file, file_recording_active,
                   last_file_creation_day, last_measurement_minute, ina_sensors,
                   ina_energy, consecutive_errors, last_minute_processed,
                   last_hour_processed, disk, events, resumed,
                   started_this_minute, cycled_this_minute>>
    /\ UNCHANGED <<closed_file, others>>

\* the file the session refers to (in memory while the process runs, in the
\* checkpoint while it is down)
Referred ==
    IF pc # "down" THEN {current_csv_file}
    ELSE IF state_file # NoState THEN {state_file[1].current_csv_file}
    ELSE {}

\* the daily file in use is deleted from outside the program
RemoveFile ==
    /\ \E f \in Referred \cap FileNames :
         /\ files[f].state = "present"
         /\ files' = [files EXCEPT ![f] = [AbsentFile EXCEPT !.state = "removed"]]
         /\ modified' = SelectSeq(modified, LAMBDA g : g # f)
    /\ UNCHANGED <<now, pc, sleep_for, memory, ina_energy, state_file,
                   backup_state_file, events, resumed,
                   started_this_minute, cycled_this_minute>>
    /\ UNCHANGED <<closed_file, others>>

\* what damage leaves of a header line: nothing that reads as a header, or
\* the line without its first column
Damaged == {<<>>, Tail(HEADER)}

\* while the process is down the first line of the daily file is damaged
\* from outside the program
CorruptFile ==
    /\ pc = "down"
    /\ \E f \in Referred \cap FileNames, line \in Damaged :
         /\ files[f].state = "present" /\ files[f].first_line = HEADER
         /\ files' = [files EXCEPT ![f].first_line = line]
    /\ UNCHANGED <<now, pc, sleep_for, memory, ina_energy, modified, state_file,
                   backup_state_file, events, resumed,
                   started_this_minute, cycled_this_minute>>
    /\ UNCHANGED <<closed_file, others>>

\* ------------------------------------------------------- specifications
AllMeters == {INA228_ADDRESSES}

NoFaults == {"none"}

\* the faults of a measurement cycle and of the loop body, injected while
\* fewer than MaxFaults consecutive errors are counted
CycleFaults ==
    IF consecutive_errors < MaxFaults
    THEN {"none", "write", "raise_start", "raise_end"}
    ELSE {"none"}

\* the program with restarts, nothing failing
Next ==
    \/ Start(NoFaults, AllMeters)
    \/ Loop(NoFaults, AllMeters)
    \/ Sleep
    \/ Crash
    \/ Wait

Spec == Init /\ [][Next]_vars

\* the same with failing cycles and exceptions in the loop body
NextFaulty ==
    \/ Start(NoFaults, AllMeters)
    \/ Loop(CycleFaults, AllMeters)
    \/ Sleep
    \/ Crash
    \/ Wait

SpecFaulty == Init /\ [][NextFaulty]_vars

\* the program with restarts on a disk that is touched from outside: the
\* daily file is removed or damaged, a checkpoint file cannot be removed, a
\* start-up cannot create its file
DiskFaults == {"none", "cleanup"}

StartFaults == {"none", "create"}

NextDisk ==
    \/ Start(StartFaults, AllMeters)
    \/ Loop(DiskFaults, AllMeters)
    \/ Sleep
    \/ Crash
    \/ Wait
    \/ Shutdown(DiskFaults)
    \/ rain_pulse
    \/ RemoveFile
    \/ CorruptFile

SpecDisk == Init /\ [][NextDisk]_vars

\* the program with restarts and orderly shutdowns, nothing failing inside
\* it, while the daily file is removed from outside
NextOutside ==
    \/ Start(NoFaults, AllMeters)
    \/ Loop(NoFaults, AllMeters)
    \/ Sleep
    \/ Crash
    \/ Wait
    \/ Shutdown(NoFaults)
    \/ RemoveFile

SpecOutside == Init /\ [][NextOutside]_vars

\* the program with restarts and orderly shutdowns on a disk that nothing
\* else touches; a checkpoint file may fail to be removed
NextRestart ==
    \/ Start(NoFaults, AllMeters)
    \/ Loop(DiskFaults, AllMeters)
    \/ Sleep
    \/ Crash
    \/ Wait
    \/ Shutdown(DiskFaults)

SpecRestart == Init /\ [][NextRestart]_vars

\* the program with restarts, with telemetry sends that fail, raise or are
\* cut short by the death of the process
LoopSendFaults == {"none", "send_failed", "send_raised"}

NextSend ==
    \/ Start(NoFaults, AllMeters)
    \/ Loop(LoopSendFaults, AllMeters)
    \/ Sleep
    \/ Crash
    \/ Wait
    \/ rain_pulse
    \/ KilledInSend

SpecSend == Init /\ [][NextSend]_vars

\* the program with a hardware set-up that can fail at the start, rows that
\* cannot be written, exceptions in the loop body and failing
\* re-initializations, injected while fewer than
\* MaxErrors consecutive errors are counted
ErrorFaults ==
    IF consecutive_errors < MaxErrors
    THEN {"none", "write", "raise_end", "hardware"}
    ELSE {"none"}

NextErrors ==
    \/ Start(NoFaults, AllMeters)
    \/ StartFails
    \/ Loop(ErrorFaults, AllMeters)
    \/ Sleep
    \/ rain_pulse

SpecErrors == Init /\ [][NextErrors]_vars

\* ------------------------------------------------------- telemetry point
\* Python's None and float("nan"), set apart from the numbers (which are
\* not negative here)
None == 0 - 1

NaN == 0 - 2

\* the keys of a measurement record that create_measurement_point reads and
\* the field each becomes (influxdb_sender.py lines 180-237)
ScalarField ==
    "v0" :> "panel1_voltage" @@
    "i0" :> "panel1_current" @@
    "p0" :> "panel1_power" @@
    "e0" :> "panel1_energy" @@
    "v1" :> "panel2_voltage" @@
    "i1" :> "panel2_current" @@
    "p1" :> "panel2_power" @@
    "e1" :> "panel2_energy" @@
    "irradiance" :> "irradiance" @@
    "rain_mm" :> "rain_accumulation" @@
    "wind_speed" :> "wind_speed" @@
    "wind_direction" :> "wind_direction" @@
    "dht_temp" :> "ambient_temperature" @@
    "dht_humidity" :> "ambient_humidity"

ThermistorField ==
    "T0" :> "thermistor_00_temp" @@
    "T1" :> "thermistor_01_temp" @@
    "T2" :> "thermistor_02_temp" @@
    "T3" :> "thermistor_03_temp" @@
    "T4" :> "thermistor_04_temp" @@
    "T5" :> "thermistor_05_temp" @@
    "T6" :> "thermistor_06_temp" @@
    "T7" :> "thermistor_07_temp" @@
    "T8" :> "thermistor_08_temp" @@
    "T9" :> "thermistor_09_temp" @@
    "T10" :> "thermistor_10_temp" @@
    "T11" :> "thermistor_11_temp" @@
    "T12" :> "thermistor_12_temp" @@
    "T13" :> "thermistor_13_temp" @@
    "T14" :> "thermistor_14_temp" @@
    "T15" :> "thermistor_15_temp" @@
    "T16" :> "thermistor_16_temp" @@
    "T17" :> "thermistor_17_temp" @@
    "T18" :> "thermistor_18_temp" @@
    "T19" :> "thermistor_19_temp"

FieldOf == ScalarField @@ ThermistorField

\* create_measurement_point with NaN temperatures written as fields
create_measurement_point_keeping_nan(measurement_data) ==
    LET has(k) == k \in DOMAIN measurement_data /\ measurement_data[k] # None
        keys == {k \in DOMAIN FieldOf : has(k)}
    IN  [f \in {FieldOf[k] : k \in keys} |->
            measurement_data[CHOOSE k \in keys : FieldOf[k] = f]]

\* create_measurement_point: the fields of the point it builds (the
\* measurement name, the two tags and the time are the same for every
\* point); float() leaves the number as it is
create_measurement_point(measurement_data) ==
    LET has(k) == k \in DOMAIN measurement_data /\ measurement_data[k] # None
        keys == {k \in DOMAIN ScalarField : has(k)}
                \cup {k \in DOMAIN ThermistorField :
                          has(k) /\ measurement_data[k] # NaN}
    IN  [f \in {FieldOf[k] : k \in keys} |->
            measurement_data[CHOOSE k \in keys : FieldOf[k] = f]]

\* ------------------------------------------------------- power meters
\* the meter that ina_sensors.get(address) does not find, and the None that
\* read_ina228 returns for it
NoSensor == [found |-> FALSE]
NoReading == [read |-> FALSE]

\* read_ina228 for a sensor: None when the meter was not found at start-up;
\* otherwise the meter answers or all attempts fail, and a register that
\* reads None counts as zero.  The die temperature is left out.
read_ina228(sensor) ==
    LET or_zero(x) == IF x = None THEN 0 ELSE x
    IN  IF sensor = NoSensor THEN NoReading
        ELSE IF sensor.answers
        THEN [voltage |-> or_zero(sensor.voltage), current |-> or_zero(sensor.current),
              power |-> or_zero(sensor.power), energy |-> or_zero(sensor.energy)]
        ELSE [voltage |-> 0, current |-> 0, power |-> 0, energy |-> 0]

\* validate_ina228_data; the energy is turned from joules into Wh
validate_ina228_data(ina_data) ==
    LET or_zero(x) == IF x = None THEN 0 ELSE x
    IN  IF ina_data = NoReading
        THEN [voltage |-> 0, current |-> 0, power |-> 0, energy |-> 0]
        ELSE [voltage |-> or_zero(ina_data.voltage),
              current |-> or_zero(ina_data.current),
              power |-> or_zero(ina_data.power),
              energy |-> or_zero(ina_data.energy) \div 3600]

\* what a recording cycle makes of the first power meter: the four fields of
\* the file row (record_measurement lines 1377-1403, 1458-1467) and the
\* point built from the record it sends (lines 1509-1534)
power_fields(sensor) ==
    LET ina1_validated == validate_ina228_data(read_ina228(sensor))
        v0 == ina1_validated.voltage
        i0 == ina1_validated.current
        p0 == ina1_validated.power
        e0 == ina1_validated.energy
    IN  [row |-> <<v0, i0, p0, e0>>,
         point |-> create_measurement_point(
                       [k \in {"v0", "i0", "p0", "e0"} |->
                           CASE k = "v0" -> v0 [] k = "i0" -> i0
                             [] k = "p0" -> p0 [] k = "e0" -> e0])]

\* ------------------------------------------------------------ aggregator
RECURSIVE sum(_)
sum(data) == IF data = <<>> THEN 0 ELSE Head(data) + sum(Tail(data))

\* the sum of the valid elements over the length of the whole buffer
calculate_average_over_buffer(data_list) ==
    LET valid_data == SelectSeq(data_list, LAMBDA x : x # None /\ x # NaN)
    IN  IF valid_data # <<>> THEN <<sum(valid_data), Len(data_list)>> ELSE None

\* calculate_average: the mean sum / len is kept as the fraction
\* <<sum, len>>
calculate_average(data_list) ==
    LET valid_data == SelectSeq(data_list, LAMBDA x : x # None /\ x # NaN)
    IN  IF valid_data # <<>> THEN <<sum(valid_data), Len(valid_data)>> ELSE None

\* ------------------------------------------------- functions on their own
\* the hours of a day and the times of day a window or a sample can have
ClockHours == 0 .. 23

Times == ClockHours \X (0 .. MinutesPerHour - 1)

WindowCalls ==
    [op : {"is_within_operating_hours"}, start_time : Times, end_time : Times,
     at : Times]

\* measurement records: some of the keys, each missing from the record, None,
\* NaN or a number
ProbeKeys == {"v0", "irradiance", "T0", "T19", "wind_direction", "wind_dir_str"}

Records == UNION {[keys -> {None, NaN, 1, 2}] : keys \in SUBSET ProbeKeys}

PointCalls == [op : {"create_measurement_point"}, measurement_data : Records]

\* a power meter: not found, or with registers that read None or a number,
\* answering or not
Sensors ==
    {NoSensor} \cup [answers : BOOLEAN, voltage : {None, 1}, current : {2},
                 power : {None, 2}, energy : {None, 3600}]

PowerCalls == [op : {"power_fields"}, sensor : Sensors]

\* the buffers of the aggregator: up to MaxBuffer values, each None, NaN or
\* a number
Buffers == UNION {[1 .. len -> {None, NaN, 0, 1, 2}] : len \in 0 .. MaxBuffer}

AverageCalls == [op : {"calculate_average"}, data_list : Buffers]

\* how a read of a multiplexed input ends: the converter was not found, the
\* channel cannot be selected, the sample raises, or the sample is read
ReadOutcomes == {"no_adc", "select_fails", "raises", "reads"}

\* read_irradiance_internal: the two voltages (in mV, or None) give the pair
\* (differential voltage in mV, irradiance in W/m2)
irradiance_values(outcome, minus, plus) ==
    IF outcome # "reads" THEN <<0, 0>>
    ELSE LET voltage_minus == IF minus = None THEN 0 ELSE minus
             voltage_plus == IF plus = None THEN 0 ELSE plus
             irradiance_voltage_mV ==
                 IF voltage_plus >= voltage_minus THEN voltage_plus - voltage_minus
                 ELSE voltage_minus - voltage_plus
         IN  <<irradiance_voltage_mV, (irradiance_voltage_mV * 1000) \div 75>>

R_REF == 10000

\* nominal resistance of the wind vane at each angle (angles in tenths of a
\* degree)
DIRECTION_TABLE ==
    [angle \in {0, 225, 450, 675, 900, 1125, 1350, 1575, 1800, 2025, 2250, 2475,
                2700, 2925, 3150, 3375} |->
        CASE angle = 0 -> 33000 [] angle = 225 -> 6570 [] angle = 450 -> 8200
          [] angle = 675 -> 891 [] angle = 900 -> 1000 [] angle = 1125 -> 688
          [] angle = 1350 -> 2200 [] angle = 1575 -> 1410 [] angle = 1800 -> 3900
          [] angle = 2025 -> 3140 [] angle = 2250 -> 16000 [] angle = 2475 -> 14120
          [] angle = 2700 -> 120000 [] angle = 2925 -> 42120 [] angle = 3150 -> 64900
          [] OTHER -> 21880]

\* get_wind_direction_internal: the voltage of the vane (in units of 0.3 V,
\* or None) gives the pair (angle, compass point), (None, None) when the read
\* fails or no angle is within 15 % of the resistance; the compass point is
\* named by its angle
get_wind_direction_values(outcome, voltage) ==
    IF outcome # "reads" \/ voltage = None THEN <<None, None>>
    ELSE IF voltage <= 0 THEN <<None, None>>
    ELSE LET resistance == (R_REF * voltage) \div (11 - voltage)
             error(angle) ==
                 IF DIRECTION_TABLE[angle] >= resistance
                 THEN DIRECTION_TABLE[angle] - resistance
                 ELSE resistance - DIRECTION_TABLE[angle]
             closest_angle ==
                 CHOOSE a \in DOMAIN DIRECTION_TABLE :
                     \A b \in DOMAIN DIRECTION_TABLE :
                         error(a) < error(b) \/ (error(a) = error(b) /\ a <= b)
         IN  IF error(closest_angle) * 100 <= DIRECTION_TABLE[closest_angle] * 15
             THEN <<closest_angle, closest_angle>>
             ELSE <<None, None>>

\* the cells of a row: the not-available token or a formatted number
NA == [text |-> "N/A"]
Formatted(value) == [text |-> "number", value |-> value]

\* the irradiance, thermistor and wind-direction cells of the row that
\* record_measurement writes
irradiance_cell(irradiance) == Formatted(IF irradiance = None THEN 0 ELSE irradiance)

thermistor_cell(temp_val) ==
    IF temp_val = None \/ temp_val = NaN THEN NA ELSE Formatted(temp_val)

wind_dir_str(wind_angle) == IF wind_angle # None THEN Formatted(wind_angle) ELSE NA

\* the reads of the batch and the cells made of them
row_cells(c) ==
    LET irradiance == irradiance_values(c.irradiance, c.minus, c.plus)
        wind == get_wind_direction_values(c.wind, c.voltage)
    IN  [irradiance |-> irradiance, wind |-> wind,
         row |-> [irradiance |-> irradiance_cell(irradiance[2]),
                  T0 |-> thermistor_cell(c.avg_thermistor),
                  wind_dir_str |-> wind_dir_str(wind[1])]]

RowCalls ==
    [op : {"row_cells"}, irradiance : ReadOutcomes, minus : {None, 0, 3},
     plus : {None, 0, 3}, wind : {"no_adc", "raises", "reads"},
     voltage : {None, 0, 1, 10}, avg_thermistor : {None, NaN, 25}]

Calls == WindowCalls \cup PointCalls \cup PowerCalls \cup AverageCalls \cup RowCalls

\* what the called function returns
Result(c) ==
    IF c.op = "is_within_operating_hours"
    THEN within_operating_hours(c.start_time, c.end_time,
                                [hour |-> c.at[1], minute |-> c.at[2]])
    ELSE IF c.op = "create_measurement_point"
    THEN create_measurement_point(c.measurement_data)
    ELSE IF c.op = "power_fields" THEN power_fields(c.sensor)
    ELSE IF c.op = "row_cells" THEN row_cells(c)
    ELSE calculate_average(c.data_list)

InitCalls == InitScheduler /\ call \in Calls /\ ret = <<>> /\ SenderIdle
                 /\ ArbiterIdle /\ FurtherIdle

\* the function is applied to its arguments
Apply ==
    /\ call # <<>>
    /\ ret = <<>>
    /\ ret' = <<Result(call)>>
    /\ UNCHANGED <<scheduler, call, sender, arbiter, further>>

NextCalls == Apply

SpecCalls == InitCalls /\ [][NextCalls]_vars

\* ------------------------------------------------------- telemetry sink
MAX_CONSECUTIVE_FAILURES == 5
CONNECTION_REFRESH_HOURS == 12

\* how a connection attempt ends: the health check passes, it reports
\* another status, or the client raises
InitOutcomes == {"pass", "unhealthy", "raises"}

\* where a close raises, if it does
CloseOutcomes == {"closes", "write_api_raises", "client_raises"}

\* close_influxdb: an exception leaves what was not yet closed as it is and
\* is swallowed
close_influxdb(s, closing) ==
    IF s.write_api /\ closing = "write_api_raises" THEN s
    ELSE IF s.influx_client /\ closing = "client_raises"
    THEN [s EXCEPT !.write_api = FALSE]
    ELSE [s EXCEPT !.write_api = FALSE, !.influx_client = FALSE]

\* init_influxdb, at the time time_now, for an attempt that ends as outcome
init_influxdb(s, force_reconnect, outcome, closing, time_now) ==
    LET closed == IF force_reconnect /\ (s.influx_client \/ s.write_api)
                  THEN close_influxdb(s, closing) ELSE s
        created == [closed EXCEPT !.influx_client = TRUE, !.write_api = TRUE]
    IN  IF outcome = "pass"
        THEN [w |-> [created EXCEPT !.connection_init_time = time_now,
                                    !.consecutive_failures = 0,
                                    !.last_successful_write = time_now],
              ret |-> TRUE]
        ELSE IF outcome = "unhealthy"
        THEN [w |-> close_influxdb(created, closing), ret |-> FALSE]
        ELSE [w |-> [closed EXCEPT !.influx_client = FALSE, !.write_api = FALSE],
              ret |-> FALSE]

\* needs_connection_refresh
needs_connection_refresh(s, time_now) ==
    \/ s.connection_init_time = None
    \/ time_now - s.connection_init_time >= CONNECTION_REFRESH_HOURS

\* auto_recover_connection: up to three attempts, which end as attempts[1],
\* attempts[2], attempts[3]; the pauses between them are not counted on the
\* clock
RECURSIVE recover_from(_, _, _, _, _)
recover_from(s, attempt, attempts, closing, time_now) ==
    IF attempt > 3 THEN [w |-> s, ret |-> FALSE, inits |-> 3]
    ELSE LET r == init_influxdb(s, TRUE, attempts[attempt], closing, time_now)
         IN  IF r.ret THEN [w |-> r.w, ret |-> TRUE, inits |-> attempt]
             ELSE recover_from(r.w, attempt + 1, attempts, closing, time_now)

auto_recover_connection(s, attempts, closing, time_now) ==
    recover_from(s, 1, attempts, closing, time_now)

\* the test that starts the recovery after a failed write
threshold_above(failures) == failures > MAX_CONSECUTIVE_FAILURES

threshold_reached(failures) == failures >= MAX_CONSECUTIVE_FAILURES

\* the part of send_measurement_to_influx under influx_lock, with a handler
\* that lets the failure of the write pass to the caller
write_under_lock_unhandled(s, i, time_now) ==
    IF i.point = "none"
    THEN [w |-> [s EXCEPT !.consecutive_failures = @ + 1], ret |-> FALSE,
          raised |-> FALSE, trace |-> <<>>, counted |-> None, recover_inits |-> 0]
    ELSE IF i.write = "written"
    THEN [w |-> [s EXCEPT !.last_successful_write = time_now,
                          !.consecutive_failures = 0],
          ret |-> TRUE, raised |-> FALSE, trace |-> <<"write">>, counted |-> None, recover_inits |-> 0]
    ELSE [w |-> s, ret |-> FALSE, raised |-> TRUE, trace |-> <<"write">>,
          counted |-> None, recover_inits |-> 0]

\* the part of send_measurement_to_influx under influx_lock: the point is
\* built and written; a failed write is counted and, at the threshold,
\* followed by a recovery and, when it has recovered the connection, one more
\* write of the point.  trace lists the writes and recoveries in order,
\* counted is the counter right after the failed write was counted (None
\* without one).
write_under_lock(s, i, time_now) ==
    IF i.point = "none"
    THEN [w |-> [s EXCEPT !.consecutive_failures = @ + 1], ret |-> FALSE,
          raised |-> FALSE, trace |-> <<>>, counted |-> None, recover_inits |-> 0]
    ELSE IF i.write = "written"
    THEN [w |-> [s EXCEPT !.last_successful_write = time_now,
                          !.consecutive_failures = 0],
          ret |-> TRUE, raised |-> FALSE, trace |-> <<"write">>, counted |-> None, recover_inits |-> 0]
    ELSE LET failed == [s EXCEPT !.consecutive_failures = @ + 1]
             counted == failed.consecutive_failures
             r == auto_recover_connection(failed, i.recover, i.closing, time_now)
         IN  IF ~threshold_reached(counted)
             THEN [w |-> failed, ret |-> FALSE, raised |-> FALSE,
                   trace |-> <<"write">>, counted |-> counted, recover_inits |-> 0]
             ELSE IF ~r.ret
             THEN [w |-> r.w, ret |-> FALSE, raised |-> FALSE,
                   trace |-> <<"write", "recover">>, counted |-> counted,
                   recover_inits |-> r.inits]
             ELSE IF i.retry = "written"
             THEN [w |-> [r.w EXCEPT !.last_successful_write = time_now,
                                     !.consecutive_failures = 0],
                   ret |-> TRUE, raised |-> FALSE,
                   trace |-> <<"write", "recover", "recovered", "write">>, counted |-> counted,
                   recover_inits |-> r.inits]
             ELSE [w |-> r.w, ret |-> FALSE, raised |-> FALSE,
                   trace |-> <<"write", "recover", "recovered", "write">>, counted |-> counted,
                   recover_inits |-> r.inits]

\* send_measurement_to_influx at the time time_now; i says how the attempts
\* of each recovery, the closes, the construction of the point and the
\* writes end.  inits counts the connection attempts of the refresh, of the
\* reconnect and of the recovery after the failed write; entered is the
\* sender as it is when the lock is taken (or when the send gives up before)
send_measurement_to_influx(s, i, time_now) ==
    LET refreshed ==
            IF needs_connection_refresh(s, time_now)
            THEN auto_recover_connection(s, i.refresh, i.closing, time_now).w
            ELSE s
        refresh == IF needs_connection_refresh(s, time_now) THEN <<"refresh">> ELSE <<>>
        connected == refreshed.influx_client /\ refreshed.write_api
        r == auto_recover_connection(refreshed, i.reconnect, i.closing, time_now)
        entered == IF connected THEN refreshed ELSE r.w
        written == write_under_lock(entered, i, time_now)
        inits == <<IF needs_connection_refresh(s, time_now)
                   THEN auto_recover_connection(s, i.refresh, i.closing, time_now).inits
                   ELSE 0,
                   IF connected THEN 0 ELSE r.inits>>
    IN  IF ~connected /\ ~r.ret
        THEN [w |-> r.w, ret |-> FALSE, raised |-> FALSE,
              trace |-> refresh \o <<"reconnect">>, counted |-> None,
              inits |-> inits \o <<0>>, entered |-> r.w]
        ELSE [w |-> written.w, ret |-> written.ret, raised |-> written.raised,
              trace |-> refresh \o (IF connected THEN <<>> ELSE <<"reconnect">>)
                          \o written.trace,
              counted |-> written.counted,
              inits |-> inits \o <<written.recover_inits>>,
              entered |-> entered]

\* ------------------------------------------------- duration of a send
\* INFLUX_CONFIG["timeout"], in milliseconds
TIMEOUT == 10000
TIMEOUT_SECONDS == TIMEOUT \div 1000
\* time.sleep(2) after the close of an existing connection
CLOSE_SLEEP == 2
\* time.sleep(5) after a failed attempt of auto_recover_connection
ATTEMPT_SLEEP == 5
SecondsPerMinute == 60

\* how long a call to the store lasts that ends by raising: it is refused at
\* once, or it ends with the timeout
Waits == {0, TIMEOUT_SECONDS}

\* the seconds one init_influxdb takes: the pause after the close of an
\* existing connection, and the wait for a health check that raises
init_seconds(s, force_reconnect, outcome, wait) ==
    (IF force_reconnect /\ (s.influx_client \/ s.write_api) THEN CLOSE_SLEEP ELSE 0)
    + (IF outcome = "raises" THEN wait ELSE 0)

\* the seconds auto_recover_connection takes from the attempt on: each
\* failed attempt is followed by its pause, the last one too
RECURSIVE recover_seconds(_, _, _, _, _, _)
recover_seconds(s, attempt, attempts, closing, time_now, wait) ==
    IF attempt > 3 THEN 0
    ELSE LET r == init_influxdb(s, TRUE, attempts[attempt], closing, time_now)
         IN  init_seconds(s, TRUE, attempts[attempt], wait)
             + (IF r.ret THEN 0
                ELSE ATTEMPT_SLEEP
                     + recover_seconds(r.w, attempt + 1, attempts, closing,
                                       time_now, wait))

\* the seconds of the part under influx_lock, entered with the sender as s
write_seconds(s, i, time_now) ==
    IF i.point = "none" \/ i.write = "written" THEN 0
    ELSE LET failed == [s EXCEPT !.consecutive_failures = @ + 1]
             r == auto_recover_connection(failed, i.recover, i.closing, time_now)
         IN  i.wait
             + (IF ~threshold_reached(failed.consecutive_failures) THEN 0
                ELSE recover_seconds(failed, 1, i.recover, i.closing, time_now, i.wait)
                     + (IF r.ret /\ i.retry = "raises" THEN i.wait ELSE 0))

\* the seconds send_measurement_to_influx takes, all of them inside the
\* cycle that called it
send_seconds(s, i, time_now) ==
    LET stale == needs_connection_refresh(s, time_now)
        refreshed == IF stale
                     THEN auto_recover_connection(s, i.refresh, i.closing, time_now).w
                     ELSE s
        connected == refreshed.influx_client /\ refreshed.write_api
        r == auto_recover_connection(refreshed, i.reconnect, i.closing, time_now)
    IN  (IF stale
         THEN recover_seconds(s, 1, i.refresh, i.closing, time_now, i.wait) ELSE 0)
        + (IF connected THEN 0
           ELSE recover_seconds(refreshed, 1, i.reconnect, i.closing, time_now, i.wait))
        + (IF ~connected /\ ~r.ret THEN 0
           ELSE write_seconds(IF connected THEN refreshed ELSE r.w, i, time_now))

\* what record_measurement does with the record it has built: the send is
\* inside a try whose handler prints, and the cycle returns True
record_measurement_send(s, i, time_now) ==
    LET r == send_measurement_to_influx(s, i, time_now)
    IN  [w |-> r.w, send |-> r, ret |-> TRUE]

\* how the three attempts of a recovery end
Attempts ==
    {<<"pass", "pass", "pass">>, <<"raises", "unhealthy", "pass">>,
     <<"unhealthy", "unhealthy", "unhealthy">>, <<"raises", "raises", "raises">>}

\* how the construction of the point and the writes end; what is never
\* consulted is left at one value
WriteInputs ==
    [point : {"built", "none"}, write : {"written"},
     recover : {<<"pass", "pass", "pass">>}, retry : {"written"}]
    \cup [point : {"built"}, write : {"raises"}, recover : Attempts,
          retry : {"written", "raises"}]

\* what the network and the store do during one send that starts with the
\* sender as s at the time time_now, when a call that raises lasts one of
\* waits and a close ends as one of closings
SendInputs(s, time_now, waits, closings) ==
    LET stale == needs_connection_refresh(s, time_now)
    IN  {[refresh |-> a, reconnect |-> b, closing |-> c, point |-> x.point,
          write |-> x.write, recover |-> x.recover, retry |-> x.retry,
          wait |-> d] :
            d \in waits,
            a \in IF stale THEN Attempts ELSE {<<"pass", "pass", "pass">>},
            b \in IF ~stale /\ s.influx_client /\ s.write_api
                  THEN {<<"pass", "pass", "pass">>} ELSE Attempts,
            c \in closings, x \in WriteInputs}

\* a cycle sends its record
Send(waits, closings) ==
    /\ sink.consecutive_failures < MaxFailures
    /\ \E i \in SendInputs(sink, sink_clock, waits, closings) :
         \E r \in {record_measurement_send(sink, i, sink_clock)} :
            /\ sink' = r.w
            /\ sent' = <<[before |-> sink, at |-> sink_clock, send |-> r.send,
                          cycle |-> r.ret, failed_before |-> failed_sends,
                          seconds |-> send_seconds(sink, i, sink_clock)]>>
            /\ failed_sends' = IF r.send.ret THEN 0
                               ELSE IF failed_sends < MAX_CONSECUTIVE_FAILURES
                               THEN failed_sends + 1 ELSE failed_sends
    /\ UNCHANGED <<scheduler, calls, sink_clock, arbiter, further>>

\* six hours pass
Pass ==
    /\ sink_clock + 6 <= MaxClock
    /\ sink_clock' = sink_clock + 6
    /\ UNCHANGED <<scheduler, calls, sink, sent, failed_sends, arbiter, further>>

\* the store refuses at once the calls it does not serve
NextSink == Send({0}, CloseOutcomes) \/ Pass

SpecSink == Init /\ [][NextSink]_vars

\* the store may also let a call wait for the timeout
NextSlow == Send(Waits, {"closes"}) \/ Pass

SpecSlow == Init /\ [][NextSlow]_vars

\* ------------------------------------------------ start of forwarding
\* the sender of a process that has not connected yet
NoConnection ==
    [influx_client |-> FALSE, write_api |-> FALSE, consecutive_failures |-> 0,
     last_successful_write |-> None, connection_init_time |-> None]

\* how a health check ends with a store that can or cannot be reached
answers(reachable) == IF reachable THEN "pass" ELSE "raises"

\* what the store does during one send
store_inputs(reachable) ==
    LET a == answers(reachable)
        w == IF reachable THEN "written" ELSE "raises"
    IN  [refresh |-> <<a, a, a>>, reconnect |-> <<a, a, a>>, closing |-> "closes",
         point |-> "built", write |-> w, recover |-> <<a, a, a>>, retry |-> w,
         wait |-> 0]

\* record_measurement sends only when influx_initialized is set
forward(initialized, s, reachable, time_now) ==
    IF initialized
    THEN LET r == send_measurement_to_influx(s, store_inputs(reachable), time_now)
         IN  [w |-> r.w, called |-> TRUE, ret |-> r.ret]
    ELSE [w |-> s, called |-> FALSE, ret |-> FALSE]

InitForward ==
    /\ InitScheduler /\ CallsIdle /\ ArbiterIdle
    /\ WalkerIdle /\ SamplingIdle /\ StoppingIdle
    /\ sink = NoConnection /\ sink_clock = 0 /\ sent = <<>> /\ failed_sends = 0
    /\ forwarding \in [up : {FALSE}, influx_initialized : {FALSE},
                       reachable : BOOLEAN, delivered : {FALSE}, minute : {0}]
    /\ AgingIdle /\ PulsesIdle /\ HardwareIdle /\ LocksIdle

\* initialize_hardware: influx_initialized = init_influxdb()
StartProcess ==
    /\ ~forwarding.up
    /\ \E r \in {init_influxdb(sink, FALSE, answers(forwarding.reachable),
                                "closes", sink_clock)} :
         /\ sink' = r.w
         /\ forwarding' = [forwarding EXCEPT !.up = TRUE,
                                             !.influx_initialized = r.ret]
    /\ UNCHANGED <<scheduler, calls, sink_clock, sent, failed_sends, arbiter,
                   walker, sampling, stopping, aging, pulses,
                   hardware, locks>>

\* a measurement cycle that writes its row and reaches the send
Cycle ==
    /\ forwarding.up
    /\ \E r \in {forward(forwarding.influx_initialized, sink,
                          forwarding.reachable, sink_clock)} :
         /\ sink' = r.w
         /\ forwarding' = [forwarding EXCEPT
                              !.delivered = @ \/ (r.called /\ r.ret),
                              !.minute = 1 - @]
    /\ UNCHANGED <<scheduler, calls, sink_clock, sent, failed_sends, arbiter,
                   walker, sampling, stopping, aging, pulses,
                   hardware, locks>>

\* the store becomes reachable
StoreUp ==
    /\ ~forwarding.reachable
    /\ forwarding' = [forwarding EXCEPT !.reachable = TRUE]
    /\ UNCHANGED <<scheduler, calls, sender, arbiter, walker, sampling, stopping,
                   aging, pulses, hardware, locks>>

\* the store becomes unreachable
StoreDown ==
    /\ forwarding.reachable
    /\ forwarding' = [forwarding EXCEPT !.reachable = FALSE, !.delivered = FALSE]
    /\ UNCHANGED <<scheduler, calls, sender, arbiter, walker, sampling, stopping,
                   aging, pulses, hardware, locks>>

NextForward == StartProcess \/ Cycle \/ StoreUp \/ StoreDown \/ Pass

\* the loop runs a cycle every minute for as long as the process is up
SpecForward == InitForward /\ [][NextForward]_vars /\ WF_vars(Cycle)

\* ---------------------------------------------------- shared bus arbiter
Threads == {"main", "sampler"}

\* set_mux_channel(channel) and the read of the voltage of an ADC input
Select(channel) == [kind |-> "select", n |-> channel]

Sample(input) == [kind |-> "sample", n |-> input]

\* read_thermistors_internal: each channel of a bank is selected and
\* sampled; one bank of ThermistorChannels channels stands for the three
RECURSIVE bank(_)
bank(ch) ==
    IF ch >= ThermistorChannels THEN <<>>
    ELSE <<Select(ch), Sample(0)>> \o bank(ch + 1)

read_thermistors_internal == bank(0)

\* read_irradiance_internal: channels 4 and 5 of the third multiplexer
read_irradiance_internal == <<Select(4), Sample(2), Select(5), Sample(2)>>

\* get_wind_direction_internal: ADC input 3, which no multiplexer feeds
get_wind_direction_internal == <<Sample(3)>>

\* the reads that each thread makes, each inside one "with hardware_lock":
\* the cycle's batch, then read_irradiance() and get_wind_direction() of
\* print_detailed_measurement; the sampler's read_thermistors()
Reads(t) ==
    IF t = "main"
    THEN <<read_thermistors_internal \o read_irradiance_internal
             \o get_wind_direction_internal,
           read_irradiance_internal, get_wind_direction_internal>>
    ELSE <<read_thermistors_internal>>

\* a thread enters its read without looking at the lock when it is the
\* sampler
enters_unlocked(lock, t) == lock = "free" \/ t = "sampler"

\* "with hardware_lock": a thread enters when no thread holds the lock
enters(lock, t) == lock = "free"

\* a cycle reaches its reads, or the sampler's five seconds are over
Begin(t) ==
    /\ thread[t].section = 0
    /\ thread' = [thread EXCEPT ![t] = [section |-> 1, held |-> FALSE, done |-> 0]]
    /\ UNCHANGED <<scheduler, calls, sender, hardware_lock, mux, further>>

Acquire(t) ==
    /\ thread[t].section > 0
    /\ ~thread[t].held
    /\ enters(hardware_lock, t)
    /\ hardware_lock' = t
    /\ thread' = [thread EXCEPT ![t].held = TRUE]
    /\ UNCHANGED <<scheduler, calls, sender, mux, further>>

\* the next step of the read: a channel is selected or an input sampled
Step(t) ==
    /\ thread[t].held
    /\ thread[t].done < Len(Reads(t)[thread[t].section])
    /\ LET op == Reads(t)[thread[t].section][thread[t].done + 1]
       IN  mux' = IF op.kind = "select" THEN op.n ELSE mux
    /\ thread' = [thread EXCEPT ![t].done = @ + 1]
    /\ UNCHANGED <<scheduler, calls, sender, hardware_lock, further>>

\* the with-block ends; the thread goes on to its next read, if it has one
Release(t) ==
    /\ thread[t].held
    /\ thread[t].done = Len(Reads(t)[thread[t].section])
    /\ hardware_lock' = "free"
    /\ thread' = [thread EXCEPT ![t] =
                      [section |-> IF thread[t].section < Len(Reads(t))
                                   THEN thread[t].section + 1 ELSE 0,
                       held |-> FALSE, done |-> 0]]
    /\ UNCHANGED <<scheduler, calls, sender, mux, further>>

NextArbiter ==
    \E t \in Threads : Begin(t) \/ Acquire(t) \/ Step(t) \/ Release(t)

SpecArbiter == Init /\ [][NextArbiter]_vars

\* ------------------------------------ re-initialization of the hardware
MaxReinits == 2

\* what initialize_hardware does, in order: the counters are zeroed, the
\* pulse sensors closed and GPIO.cleanup() called, the multiplexer's pins
\* set up, the I2C bus, the ADS1115 and its channel objects replaced, the
\* INA228 and the pulse sensors set up
Phases == <<"counters", "cleanup", "gpio_setup", "i2c", "ads1115", "sensors">>

\* the loop has counted MAX_CONSECUTIVE_ERRORS failed iterations and calls
\* initialize_hardware(), which takes no lock and looks at none
ReinitBegin ==
    /\ hardware.phase = 0
    /\ hardware.times < MaxReinits
    /\ thread["main"].section = 0
    /\ hardware' = [hardware EXCEPT !.phase = 1]
    /\ UNCHANGED <<scheduler, calls, sender, arbiter, walker, sampling, stopping,
                   forwarding, aging, pulses, locks>>

\* the next phase of initialize_hardware; GPIO.cleanup() leaves the
\* multiplexer's pins as inputs
ReinitStep ==
    /\ hardware.phase > 0
    /\ hardware.phase < Len(Phases)
    /\ hardware' = [hardware EXCEPT !.phase = @ + 1]
    /\ UNCHANGED <<scheduler, calls, sender, arbiter, walker, sampling, stopping,
                   forwarding, aging, pulses, locks>>

\* initialize_hardware returns
ReinitEnd ==
    /\ hardware.phase = Len(Phases)
    /\ hardware' = [hardware EXCEPT !.phase = 0, !.times = @ + 1]
    /\ UNCHANGED <<scheduler, calls, sender, arbiter, walker, sampling, stopping,
                   forwarding, aging, pulses, locks>>

\* the sampler reads the thermistors while the loop may re-initialize
NextReinit ==
    \/ Begin("sampler") \/ Acquire("sampler") \/ Step("sampler") \/ Release("sampler")
    \/ ReinitBegin \/ ReinitStep \/ ReinitEnd

SpecReinit == Init /\ [][NextReinit]_vars

\* ------------------------------------------------------ locks of the sender
\* The steps of a thread that matter for the locks: it takes or leaves a
\* lock, calls the store over the network, or assigns a global of the sender.
acquire(lock) == [do |-> "acquire", what |-> lock]
release(lock) == [do |-> "release", what |-> lock]
network(callee) == [do |-> "network", what |-> callee]
mutate(global) == [do |-> "mutate", what |-> global]

\* close_influxdb
close_steps(connected) ==
    IF connected THEN <<mutate("write_api"), mutate("influx_client")>> ELSE <<>>

\* init_influxdb: the steps, and whether a connection is left
init_steps(force_reconnect, connected, outcome) ==
    [code |-> (IF force_reconnect THEN close_steps(connected) ELSE <<>>)
              \o <<mutate("influx_client"), mutate("write_api"), network("health")>>
              \o (IF outcome = "pass"
                  THEN <<mutate("connection_init_time"),
                         mutate("consecutive_failures"),
                         mutate("last_successful_write")>>
                  ELSE IF outcome = "unhealthy" THEN close_steps(TRUE)
                  ELSE <<mutate("influx_client"), mutate("write_api")>>),
     connected |-> outcome = "pass"]

\* auto_recover_connection from the attempt on
RECURSIVE recover_steps(_, _, _)
recover_steps(connected, attempt, attempts) ==
    IF attempt > 3 THEN [code |-> <<>>, connected |-> connected, ret |-> FALSE]
    ELSE LET r == init_steps(TRUE, connected, attempts[attempt])
             later == recover_steps(r.connected, attempt + 1, attempts)
         IN  IF r.connected THEN [code |-> r.code, connected |-> TRUE, ret |-> TRUE]
             ELSE [later EXCEPT !.code = r.code \o @]

\* the part of send_measurement_to_influx under influx_lock; failures is the
\* counter when the lock is taken
locked_steps(failures, i) ==
    LET succeeded == <<mutate("last_successful_write"),
                       mutate("consecutive_failures")>>
        r == recover_steps(TRUE, 1, i.recover)
    IN  <<acquire("influx_lock")>>
        \o (IF i.point = "none" THEN <<mutate("consecutive_failures")>>
            ELSE <<network("write")>>
                 \o (IF i.write = "written" THEN succeeded
                     ELSE <<mutate("consecutive_failures")>>
                          \o (IF ~threshold_reached(failures + 1) THEN <<>>
                              ELSE r.code
                                   \o (IF ~r.ret THEN <<>>
                                       ELSE <<network("write")>>
                                            \o (IF i.retry = "written"
                                                THEN succeeded ELSE <<>>)))))
        \o <<release("influx_lock")>>

\* send_measurement_to_influx on a sender that is stale or not, connected or
\* not
send_steps(stale, connected, failures, i) ==
    LET refresh == IF stale THEN recover_steps(connected, 1, i.refresh)
                   ELSE [code |-> <<>>, connected |-> connected, ret |-> TRUE]
        reconnect == IF refresh.connected
                     THEN [code |-> <<>>, connected |-> TRUE, ret |-> TRUE]
                     ELSE recover_steps(FALSE, 1, i.reconnect)
    IN  refresh.code \o reconnect.code
        \o (IF ~reconnect.ret THEN <<>>
            ELSE locked_steps(IF stale \/ ~connected THEN 0 ELSE failures, i))

\* the cycle of record_measurement: the batch of reads under hardware_lock,
\* the means under data_lock, the row, the send
cycle_steps(stale, connected, failures, i) ==
    <<acquire("hardware_lock"), release("hardware_lock"),
      acquire("data_lock"), release("data_lock")>>
    \o send_steps(stale, connected, failures, i)

\* periodic_health_check
periodic_health_check_steps(stale, connected, healthy, attempts) ==
    IF ~connected THEN recover_steps(FALSE, 1, attempts).code
    ELSE <<network("health")>>
         \o (IF ~healthy
             THEN <<mutate("consecutive_failures")>>
                  \o recover_steps(TRUE, 1, attempts).code
             ELSE IF stale THEN recover_steps(TRUE, 1, attempts).code
             ELSE <<>>)

\* the entry points with what the store does during each
Programs ==
    {cycle_steps(stale, connected, failures,
                 [refresh |-> a, reconnect |-> b, point |-> x.point,
                  write |-> x.write, recover |-> x.recover, retry |-> x.retry]) :
        stale \in BOOLEAN, connected \in BOOLEAN,
        failures \in {0, MAX_CONSECUTIVE_FAILURES - 1},
        a \in Attempts, b \in Attempts, x \in WriteInputs}
    \cup {periodic_health_check_steps(stale, connected, healthy, a) :
            stale \in BOOLEAN, connected \in BOOLEAN, healthy \in BOOLEAN,
            a \in Attempts}
    \cup {init_steps(FALSE, FALSE, outcome).code : outcome \in InitOutcomes}

\* a thread enters an entry point of the sender
Enter ==
    /\ program = <<>>
    /\ held = {}
    /\ program' \in Programs
    /\ step' = NoStep
    /\ UNCHANGED <<scheduler, calls, sender, arbiter, extra, held, sampling, stopping>>

\* it takes the next step
Execute ==
    /\ program # <<>>
    /\ Head(program).do = "acquire" => Head(program).what \notin held
    /\ program' = Tail(program)
    /\ step' = Head(program)
    /\ held' = IF Head(program).do = "acquire" THEN held \cup {Head(program).what}
               ELSE IF Head(program).do = "release" THEN held \ {Head(program).what}
               ELSE held
    /\ UNCHANGED <<scheduler, calls, sender, arbiter, extra, sampling, stopping>>

NextWalker == Enter \/ Execute

SpecWalker == Init /\ [][NextWalker]_vars

\* ----------------------------------------------- the three locks together
Locks == {"hardware_lock", "data_lock", "influx_lock"}

\* "with lock:" around a block that takes no lock
with(lock) == <<acquire(lock), release(lock)>>

\* an iteration of measurement_thread in which the thermistors and the
\* DHT22 are due, with read_thermistors() called inside the with-block of
\* the buffers
lock_steps_nested(t, initialized) ==
    IF t = "sampler"
    THEN with("data_lock")
         \o <<acquire("data_lock")>> \o with("hardware_lock") \o <<release("data_lock")>>
         \o with("data_lock")
    ELSE with("hardware_lock") \o with("data_lock")
         \o (IF initialized THEN with("influx_lock") ELSE <<>>)
         \o with("hardware_lock") \o with("data_lock") \o with("hardware_lock")
         \o with("data_lock") \o with("data_lock")

\* the acquisitions and releases of a thread, in order.  The sampler: an
\* iteration of measurement_thread in which the thermistors and the DHT22
\* are due (the wind speed is appended, read_thermistors() reads under
\* hardware_lock, the temperatures are appended, the DHT22 pair is
\* appended).  The main thread: record_measurement (the batch of reads, the
\* means, the send when influx_initialized is set) and then
\* print_detailed_measurement (read_irradiance(), the thermistors' means,
\* get_wind_direction(), the wind's mean, the DHT22's means).
lock_steps(t, initialized) ==
    IF t = "sampler"
    THEN with("data_lock") \o with("hardware_lock") \o with("data_lock")
         \o with("data_lock")
    ELSE with("hardware_lock") \o with("data_lock")
         \o (IF initialized THEN with("influx_lock") ELSE <<>>)
         \o with("hardware_lock") \o with("data_lock") \o with("hardware_lock")
         \o with("data_lock") \o with("data_lock")

\* the step a thread is at
at_step(l, t) == lock_steps(t, l.influx_initialized)[l.at[t]]

\* the step after: the thread's next iteration or cycle follows the last
advance(l, t) ==
    IF l.at[t] = Len(lock_steps(t, l.influx_initialized)) THEN 1 ELSE l.at[t] + 1

\* the locks a thread holds
held_by(l, t) == {k \in Locks : l.owner[k] = t}

\* a thread is blocked when the lock it is about to take is not free;
\* threading.Lock is not reentrant
blocked(l, t) ==
    at_step(l, t).do = "acquire" /\ l.owner[at_step(l, t).what] # "free"

InitLocks ==
    /\ InitScheduler /\ CallsIdle /\ SenderIdle /\ ArbiterIdle
    /\ WalkerIdle /\ SamplingIdle /\ StoppingIdle
    /\ ForwardingIdle /\ AgingIdle /\ PulsesIdle /\ HardwareIdle
    /\ locks \in [owner : {[l \in Locks |-> "free"]},
                  at : {[t \in Threads |-> 1]},
                  influx_initialized : BOOLEAN]

\* a thread enters a with-block
Take(t) ==
    /\ at_step(locks, t).do = "acquire"
    /\ ~blocked(locks, t)
    /\ locks' = [locks EXCEPT !.owner[at_step(locks, t).what] = t,
                              !.at[t] = advance(locks, t)]
    /\ UNCHANGED <<scheduler, calls, sender, arbiter, walker, sampling, stopping,
                   forwarding, aging, pulses, hardware>>

\* a thread leaves a with-block
Drop(t) ==
    /\ at_step(locks, t).do = "release"
    /\ locks' = [locks EXCEPT !.owner[at_step(locks, t).what] = "free",
                              !.at[t] = advance(locks, t)]
    /\ UNCHANGED <<scheduler, calls, sender, arbiter, walker, sampling, stopping,
                   forwarding, aging, pulses, hardware>>

NextLocks == \E t \in Threads : Take(t) \/ Drop(t)

SpecLocks == InitLocks /\ [][NextLocks]_vars

\* ------------------------------------------------ buffers of the aggregator
\* The buffers are deques with a maximum length; of the twenty thermistor
\* channels one, T0, is followed.
AmbientCapacity == 12
WindCapacity == 60
ThermistorCapacity == 12

maxlen ==
    [b \in {"dht_temps", "dht_hums", "wind_speeds_second", "T0"} |->
        IF b = "wind_speeds_second" THEN WindCapacity
        ELSE IF b = "T0" THEN ThermistorCapacity ELSE AmbientCapacity]

\* deque.append without the bound
append_unbounded(buffer, capacity, value) == Append(buffer, value)

\* deque.append on a deque of maximum length capacity
append(buffer, capacity, value) ==
    IF Len(buffer) < capacity THEN Append(buffer, value)
    ELSE Append(Tail(buffer), value)

is_valid_temperature(temp) ==
    IF temp = None \/ temp = NaN THEN FALSE ELSE 10 <= temp /\ temp <= 70

\* the sampler reads the thermistors and the DHT22 in the iterations whose
\* second is a multiple of 5, the wind speed in every one
due(signal, tick) == signal = "wind" \/ tick % 5 = 0

\* what a read gives in the iteration tick: the values to append, each with
\* its buffer.  A read that succeeds gives a value that names the iteration;
\* the thermistor's runs from both ends of the accepted range.
Readings(signal, tick) ==
    IF signal = "wind" THEN {<<[to |-> "wind_speeds_second", value |-> tick]>>}
    ELSE IF signal = "dht"
    THEN {<<[to |-> "dht_temps", value |-> tick], [to |-> "dht_hums", value |-> tick]>>}
    ELSE {<<[to |-> "T0",
             value |-> IF (tick \div 5) % 2 = 0 THEN 10 + (tick \div 5)
                       ELSE 71 - (tick \div 5)]>>}

\* what a read gives when it fails: no wind speed and no DHT22 pair, a
\* thermistor dictionary without the channel or with a value that is NaN or
\* out of range
Misses(signal) ==
    IF signal = "therm"
    THEN {<<>>} \cup {<<[to |-> "T0", value |-> v]>> : v \in {NaN, 9, 71}}
    ELSE {<<>>}

after(signal) ==
    IF signal = "wind" THEN "therm" ELSE IF signal = "therm" THEN "dht" ELSE "sleep"

\* the values of a with-block of measurement_thread are appended
RECURSIVE append_all(_, _)
append_all(deques, values) ==
    IF values = <<>> THEN deques
    ELSE LET v == Head(values)
         IN  IF v.to = "T0" /\ ~is_valid_temperature(v.value)
             THEN append_all(deques, Tail(values))
             ELSE append_all([deques EXCEPT ![v.to] = append(@, maxlen[v.to], v.value)],
                             Tail(values))

RECURSIVE record_all(_, _)
record_all(history, values) ==
    IF values = <<>> THEN history
    ELSE LET v == Head(values)
         IN  IF v.to = "T0" /\ ~is_valid_temperature(v.value)
             THEN record_all(history, Tail(values))
             ELSE record_all([history EXCEPT ![v.to] = Append(@, v.value)],
                             Tail(values))

\* measurement_thread reads a signal; the wind speed and the DHT22 pair are
\* appended only when there is a value, the thermistors' block is entered
\* with whatever was read
Read ==
    /\ sampler.pc # "sleep"
    /\ sampler.stage = "reads"
    /\ \E values \in IF ~due(sampler.pc, sampler.tick) THEN {<<>>}
                     ELSE Readings(sampler.pc, sampler.tick)
                          \cup (IF sampler.misses < MaxMisses
                                THEN Misses(sampler.pc) ELSE {}) :
         LET missed == due(sampler.pc, sampler.tick)
                         /\ values \notin Readings(sampler.pc, sampler.tick)
             skips == ~due(sampler.pc, sampler.tick)
                        \/ (values = <<>> /\ sampler.pc # "therm")
         IN  sampler' = [sampler EXCEPT
                 !.misses = IF missed THEN @ + 1 ELSE @,
                 !.pc = IF skips THEN after(@) ELSE @,
                 !.stage = IF skips THEN "reads" ELSE "waits",
                 !.pending = IF skips THEN <<>> ELSE values]
    /\ UNCHANGED <<scheduler, calls, sender, arbiter, extra, walker, stopping, buffers, pushed,
                   data_lock, reader>>

\* it takes data_lock
Lock ==
    /\ sampler.stage = "waits"
    /\ data_lock = "free"
    /\ data_lock' = "sampler"
    /\ sampler' = [sampler EXCEPT !.stage = "locked"]
    /\ UNCHANGED <<scheduler, calls, sender, arbiter, extra, walker, stopping, buffers, pushed,
                   reader>>

\* it appends and leaves the with-block
Push ==
    /\ sampler.stage = "locked"
    /\ buffers' = append_all(buffers, sampler.pending)
    /\ pushed' = record_all(pushed, sampler.pending)
    /\ data_lock' = "free"
    /\ sampler' = [sampler EXCEPT !.stage = "reads", !.pc = after(@),
                                  !.pending = <<>>]
    /\ UNCHANGED <<scheduler, calls, sender, arbiter, extra, walker, stopping, reader>>

\* time.sleep(1) and the next iteration
Tick ==
    /\ sampler.pc = "sleep"
    /\ sampler.tick < MaxTicks
    /\ sampler' = [sampler EXCEPT !.pc = "wind", !.tick = @ + 1]
    /\ UNCHANGED <<scheduler, calls, sender, arbiter, extra, walker, stopping, buffers, pushed,
                   data_lock, reader>>

\* the main thread enters a with-block that computes means
ReaderLock ==
    /\ reader = "idle"
    /\ data_lock = "free"
    /\ data_lock' = "main"
    /\ reader' = "locked"
    /\ UNCHANGED <<scheduler, calls, sender, arbiter, extra, walker, stopping, buffers, pushed,
                   sampler>>

\* it has copied the buffers and leaves the block
ReaderLeave ==
    /\ reader = "locked"
    /\ data_lock' = "free"
    /\ reader' = "idle"
    /\ UNCHANGED <<scheduler, calls, sender, arbiter, extra, walker, stopping, buffers, pushed,
                   sampler>>

NextSampling == Read \/ Lock \/ Push \/ Tick \/ ReaderLock \/ ReaderLeave

SpecSampling == Init /\ [][NextSampling]_vars

\* ------------------------------------------------- age of the samples
\* the temperature a thermistor that works gives next: the two ends of the
\* accepted range in turn
next_temp(buffer) ==
    IF buffer = <<>> \/ buffer[Len(buffer)] = 70 THEN 10 ELSE 70

\* the thermistor cell of a row, made of the mean of the buffer; the buffer
\* holds valid samples only, so that the mean is None exactly when the
\* buffer is empty
mean_cell(data_list) ==
    IF data_list = <<>> THEN thermistor_cell(None)
    ELSE Formatted(calculate_average(data_list))

\* the signal stops giving valid samples
Fail ==
    /\ ~aging.dead
    /\ aging' = [aging EXCEPT !.dead = TRUE]
    /\ UNCHANGED <<scheduler, calls, sender, arbiter, walker, sampling, stopping,
                   forwarding, pulses, hardware, locks>>

\* an iteration of measurement_thread that reads the thermistors: what is
\* read is appended when it is valid
SampleThermistor ==
    /\ \E values \in IF aging.dead THEN Misses("therm")
                      ELSE {<<[to |-> "T0", value |-> next_temp(buffers.T0)]>>} :
         buffers' = append_all(buffers, values)
    /\ UNCHANGED <<scheduler, calls, sender, arbiter, walker, stopping, pushed,
                   data_lock, sampler, reader, extra>>

\* a cycle computes the mean under data_lock and writes the cell
Row ==
    /\ data_lock = "free"
    /\ aging' = [aging EXCEPT !.cell = <<mean_cell(buffers.T0)>>,
                              !.minute = 1 - @]
    /\ UNCHANGED <<scheduler, calls, sender, arbiter, walker, sampling, stopping,
                   forwarding, pulses, hardware, locks>>

NextStale == Fail \/ SampleThermistor \/ Row

\* the sampler iterates every second and the loop writes a row every minute
SpecStale == Init /\ [][NextStale]_vars /\ WF_vars(SampleThermistor) /\ WF_vars(Row)

\* ------------------------------------- rain counter between two threads
\* The callback runs in the thread of the pulse sensor, the cycle in the
\* main thread; neither takes a lock for rain_count.
MaxPulses == 3
MaxRows == 2

\* rain_pulse, "rain_count += 1": the counter is loaded ...
PulseLoad ==
    /\ pulses.callback = "idle"
    /\ pulses.counted < MaxPulses
    /\ pulses' = [pulses EXCEPT !.callback = "loaded", !.loaded = pulses.rain_count]
    /\ UNCHANGED <<scheduler, calls, sender, arbiter, walker, sampling, stopping,
                   forwarding, aging, hardware, locks>>

\* ... and stored one higher: the pulse is counted
PulseStore ==
    /\ pulses.callback = "loaded"
    /\ pulses' = [pulses EXCEPT !.callback = "idle", !.loaded = 0,
                                !.rain_count = pulses.loaded + 1,
                                !.counted = @ + 1]
    /\ UNCHANGED <<scheduler, calls, sender, arbiter, walker, sampling, stopping,
                   forwarding, aging, hardware, locks>>

\* record_measurement: rain_mm_minute = rain_count * MM_PER_TICK
CycleRead ==
    /\ pulses.cycle = "idle"
    /\ pulses.rows < MaxRows
    /\ pulses' = [pulses EXCEPT !.cycle = "read", !.rain_mm_minute = pulses.rain_count]
    /\ UNCHANGED <<scheduler, calls, sender, arbiter, walker, sampling, stopping,
                   forwarding, aging, hardware, locks>>

\* rain_count = 0
CycleReset ==
    /\ pulses.cycle = "read"
    /\ pulses' = [pulses EXCEPT !.cycle = "reset", !.rain_count = 0]
    /\ UNCHANGED <<scheduler, calls, sender, arbiter, walker, sampling, stopping,
                   forwarding, aging, hardware, locks>>

\* writer.writerow(row)
CycleWrite ==
    /\ pulses.cycle = "reset"
    /\ pulses' = [pulses EXCEPT !.cycle = "idle", !.rain_mm_minute = 0,
                                !.reported = @ + pulses.rain_mm_minute,
                                !.rows = @ + 1]
    /\ UNCHANGED <<scheduler, calls, sender, arbiter, walker, sampling, stopping,
                   forwarding, aging, hardware, locks>>

NextRain == PulseLoad \/ PulseStore \/ CycleRead \/ CycleReset \/ CycleWrite

SpecRain == Init /\ [][NextRain]_vars

\* --------------------------------------------------------------- shutdown
JOIN_TIMEOUT == 5

\* main has initialized the hardware and the session and starts the sampler
Launch ==
    /\ main_thread.pc = "down"
    /\ session' \in [recording : BOOLEAN, influx_initialized : BOOLEAN]
    /\ running' = TRUE
    /\ measure_thread' = [alive |-> TRUE, busy |-> 0]
    /\ main_thread' = [pc |-> "loop", waited |-> 0]
    /\ log' = <<>>
    /\ UNCHANGED <<scheduler, calls, sender, arbiter, extra, walker, sampling>>

\* the test of 'while running' in measurement_thread: an iteration of 1 to
\* MaxIteration seconds, or the end of the thread
SamplerTest ==
    /\ measure_thread.alive
    /\ measure_thread.busy = 0
    /\ \E seconds \in 1 .. MaxIteration :
         measure_thread' = IF running THEN [alive |-> TRUE, busy |-> seconds]
                           ELSE [alive |-> FALSE, busy |-> 0]
    /\ UNCHANGED <<scheduler, calls, sender, arbiter, extra, walker, sampling, running,
                   main_thread, session, log>>

\* a second passes: for the sampler in its iteration, for main in the join
Second ==
    /\ measure_thread.busy > 0
    /\ main_thread.pc = "joins" => main_thread.waited < JOIN_TIMEOUT
    /\ measure_thread' = [measure_thread EXCEPT !.busy = @ - 1]
    /\ main_thread' = IF main_thread.pc = "joins"
                      THEN [main_thread EXCEPT !.waited = @ + 1] ELSE main_thread
    /\ UNCHANGED <<scheduler, calls, sender, arbiter, extra, walker, sampling, running,
                   session, log>>

\* the operator interrupts main in its loop, whose 'while True' does not test
\* the flag: the handler of KeyboardInterrupt, then the finally block
Interrupt ==
    /\ main_thread.pc = "loop"
    /\ main_thread' = [main_thread EXCEPT !.pc = "finally"]
    /\ UNCHANGED <<scheduler, calls, sender, arbiter, extra, walker, sampling, running,
                   measure_thread, session, log>>

\* running = False
ClearFlag ==
    /\ main_thread.pc = "finally"
    /\ running' = FALSE
    /\ log' = Append(log, "flag")
    /\ main_thread' = [main_thread EXCEPT !.pc = "end_of_day"]
    /\ UNCHANGED <<scheduler, calls, sender, arbiter, extra, walker, sampling,
                   measure_thread, session>>

\* process_end_of_day when a file is recorded: the state is saved, the file
\* is given up; nothing when the file is not on the disk
EndOfDay ==
    /\ main_thread.pc = "end_of_day"
    /\ \E exists \in BOOLEAN :
         IF session.recording /\ exists
         THEN /\ log' = log \o <<"state", "file">>
              /\ session' = [session EXCEPT !.recording = FALSE]
         ELSE UNCHANGED <<log, session>>
    /\ main_thread' = [main_thread EXCEPT !.pc = "join"]
    /\ UNCHANGED <<scheduler, calls, sender, arbiter, extra, walker, sampling, running,
                   measure_thread>>

\* measure_thread.is_alive(), and the call of join(timeout=5)
Join ==
    /\ main_thread.pc = "join"
    /\ main_thread' = [main_thread EXCEPT
                           !.pc = IF measure_thread.alive THEN "joins" ELSE "hardware"]
    /\ UNCHANGED <<scheduler, calls, sender, arbiter, extra, walker, sampling, running,
                   measure_thread, session, log>>

\* join returns: the sampler has ended or the timeout has passed
Joined ==
    /\ main_thread.pc = "joins"
    /\ ~measure_thread.alive \/ main_thread.waited = JOIN_TIMEOUT
    /\ log' = Append(log, "join")
    /\ main_thread' = [main_thread EXCEPT !.pc = "hardware"]
    /\ UNCHANGED <<scheduler, calls, sender, arbiter, extra, walker, sampling, running,
                   measure_thread, session>>

\* the pulse sensors are closed, GPIO.cleanup(), dhtDevice.exit()
ReleaseHardware ==
    /\ main_thread.pc = "hardware"
    /\ log' = Append(log, "hardware")
    /\ main_thread' = [main_thread EXCEPT !.pc = "sink"]
    /\ UNCHANGED <<scheduler, calls, sender, arbiter, extra, walker, sampling, running,
                   measure_thread, session>>

\* close_influxdb() when the sink was initialized; main ends
CloseSink ==
    /\ main_thread.pc = "sink"
    /\ log' = IF session.influx_initialized THEN Append(log, "sink") ELSE log
    /\ main_thread' = [main_thread EXCEPT !.pc = "finished"]
    /\ UNCHANGED <<scheduler, calls, sender, arbiter, extra, walker, sampling, running,
                   measure_thread, session>>

NextShutdown ==
    \/ Launch \/ SamplerTest \/ Second \/ Interrupt \/ ClearFlag \/ EndOfDay
    \/ Join \/ Joined \/ ReleaseHardware \/ CloseSink

SpecShutdown == Init /\ [][NextShutdown]_vars

\* --------------------------------------------------------------- claims
\* C1: at every moment every daily file holds at most one data row stamped
\* with the current calendar minute, whatever the loop, failed cycles, the
\* handler's resets of the minute guards, crashes and restarts did before.
OneRowPerMinute == \A f \in FileNames : files[f].rows_this_minute <= 1

\* a row of the current minute is on disk while the loop is about to run
\* with both minute guards cleared (after a restart or a handler reset)
OneRowPerMinuteWitness ==
    /\ pc = "loop"
    /\ last_measurement_minute = NoMinute
    /\ last_minute_processed = NoMinute
    /\ \E f \in FileNames : files[f].rows_this_minute = 1

\* C2: no calendar day ever has more than one daily file in the output
\* directory: the program creates no second file for a day that has one.
OneFilePerDay ==
    \A d \in Days :
        Cardinality({f \in FileNames : f[1] = d /\ files[f].state = "present"}) <= 1

\* a checkpoint written today with the recording flag set, naming a file
\* that exists and begins with the header
GoodCheckpoint ==
    /\ state_file # NoState
    /\ state_file[1].current_day = now.day
    /\ state_file[1].file_recording_active
    /\ state_file[1].current_csv_file \in FileNames
    /\ files[state_file[1].current_csv_file].state = "present"
    /\ files[state_file[1].current_csv_file].first_line = HEADER

\* C3: a start-up inside the window that finds such a checkpoint resumes
\* exactly the file it names and creates none, and no iteration of the
\* resumed process creates a daily file later that day.
ResumeKeepsFile ==
    [][/\ (pc = "down" /\ pc' = "sleep" /\ GoodCheckpoint
            /\ is_within_operating_hours(now))
           => /\ current_csv_file' = state_file[1].current_csv_file
              /\ file_recording_active'
              /\ "created" \notin events'
       /\ (pc = "loop" /\ pc' = "sleep" /\ resumed)
           => "created" \notin events']_vars

\* the checkpoint a start-up loads: the primary file, else the backup
Checkpoint == IF state_file # NoState THEN state_file ELSE backup_state_file

\* a step that is a start-up of the process
StartStep == pc = "down" /\ pc' = "sleep"

\* the checkpoint is of today, the clock is inside the window, the file the
\* checkpoint names exists with a first line that passes Line, and the
\* checkpoint's recording flag is set
AllHold(Line(_)) ==
    /\ Checkpoint # NoState
    /\ Checkpoint[1].current_day = now.day
    /\ is_within_operating_hours(now)
    /\ Checkpoint[1].current_csv_file \in FileNames
    /\ files[Checkpoint[1].current_csv_file].state = "present"
    /\ Line(files[Checkpoint[1].current_csv_file].first_line)
    /\ Checkpoint[1].file_recording_active

IsHeader(line) == line = HEADER

NamesDateTime(line) == \E i \in DOMAIN line : line[i] = "DateTime"

\* C4 as stated: a start-up restores the checkpoint only if all conditions
\* hold, the first line of the file being the expected header.
RestoreOnlyIfHeader ==
    [][StartStep => ("resumed" \in events' => AllHold(IsHeader))]_vars

\* C4 amended: a start-up restores the checkpoint only if all conditions
\* hold, the first line of the file containing the column name DateTime;
\* it then takes path, flag, last-creation day and rain total from the
\* checkpoint, and otherwise takes nothing from it.
RestoreOnlyIfAll ==
    [][StartStep =>
        /\ "resumed" \in events' =>
              /\ AllHold(NamesDateTime)
              /\ current_csv_file' = Checkpoint[1].current_csv_file
              /\ file_recording_active'
              /\ last_file_creation_day' = Checkpoint[1].last_file_creation_day
              /\ rain_count_total' = Checkpoint[1].rain_count_total
        /\ "resumed" \notin events' =>
              /\ rain_count_total' = 0
              /\ last_file_creation_day' \in {NoDay, now.day}]_vars

\* a start-up has just restored a checkpoint that carries rain
RestoreOnlyIfAllWitness ==
    /\ "startup" \in events
    /\ "resumed" \in events
    /\ Checkpoint # NoState
    /\ Checkpoint[1].rain_count_total > 0
    /\ rain_count_total = Checkpoint[1].rain_count_total

\* the files of today in the output directory
TodaysFiles == {f \in FileNames : f[1] = now.day /\ files[f].state = "present"}

\* a step that is a start-up which does not resume from the checkpoint
RejectingStart == StartStep /\ "resumed" \notin events'

\* the step creates a daily file with the header and records into it
CreatesFile ==
    /\ current_csv_file' \in FileNames \ TodaysFiles
    /\ files'[current_csv_file'].state = "present"
    /\ files'[current_csv_file'].first_line = HEADER
    /\ file_recording_active'

FlagOnlyWhileRecording ==
    (pc = "sleep" /\ "startup" \notin events /\ file_recording_active)
        => /\ is_within_operating_hours(now)
           /\ current_csv_file \in FileNames
           /\ files[current_csv_file].state = "present"

\* a step in which the loop's start-minute branch creates the daily file
StartMinuteStep == pc = "loop" /\ "start_minute" \in events'

\* C7: the loop's Idle -> Recording transition fires only in the window-start
\* minute and at most once per calendar day (a day has one start minute, so
\* never twice in one minute); when it fires a new file with the header
\* exists, the daily rain total is zero, the accumulator of every available
\* power meter is reset and the recording flag is set.
StartOncePerDay ==
    [][StartMinuteStep =>
        /\ is_time_to_create_daily_file(now)
        /\ ~started_this_minute
        /\ CreatesFile
        /\ rain_count_total' = 0
        /\ \A a \in INA228_ADDRESSES : ina_sensors'[a] => ina_energy'[a] = 0]_vars

\* the session is Recording: the flag is set and the active file exists
Recording ==
    /\ file_recording_active
    /\ current_csv_file \in FileNames
    /\ files[current_csv_file].state = "present"

\* a loop iteration run in the window-end minute
EndMinuteStep == pc = "loop" /\ pc' = "sleep" /\ is_end_of_day(now)

WatchdogMinuteOver ==
    /\ pc = "sleep" /\ pc' = "loop"
    /\ "startup" \notin events /\ "exception" \notin events
    /\ is_within_operating_hours(now)
    /\ now.minute % WATCHDOG_MINUTES = 0
    /\ MinuteIndex(now') # MinuteIndex(now)

\* C9: self-healing.  While the loop runs inside the operating window a
\* session whose recording flag is false is brought back to Recording on the
\* periodic boundary: once the loop has run through a watchdog minute the
\* recording flag is set.
SelfHealing == [][WatchdogMinuteOver => file_recording_active]_vars

\* the session state the program holds in memory, as a checkpoint
InMemoryState ==
    <<[current_csv_file |-> current_csv_file,
       file_recording_active |-> file_recording_active,
       last_file_creation_day |-> last_file_creation_day,
       current_day |-> now.day,
       rain_count_total |-> rain_count_total]>>

\* what a start-up or a loop iteration did that changes the session state
\* or writes a row
Transitions == {"created", "adopted", "resumed", "start_minute", "row"}

\* C10: once a start-up or a loop iteration has created a file, adopted
\* one, resumed from the checkpoint, done the start-minute bookkeeping or
\* written a row, the primary and the backup checkpoint both hold the
\* session state that is in memory.
CheckpointIsCurrent ==
    (pc = "sleep" /\ events \cap Transitions # {})
        => /\ state_file = InMemoryState
           /\ backup_state_file = InMemoryState

\* a loop iteration that starts a measurement cycle
CycleStep == pc = "loop" /\ "cycle_started" \in events'

\* C11: a measurement cycle is started only on an iteration whose second of
\* the minute is below CYCLE_SECOND_LIMIT, and never in a clock minute in
\* which a cycle has already been started, whether that cycle succeeded or
\* failed and also in the first minute of an hour.
CycleOncePerMinute ==
    [][CycleStep => /\ now.second < CYCLE_SECOND_LIMIT
                    /\ ~cycled_this_minute]_vars

\* a loop iteration whose recording cycle attempted the telemetry send, and
\* the same cut short by the death of the process during the send
SendStep == pc = "loop" /\ events' \cap SendFaults # {}

\* C12: the minute's row is in the daily file before the telemetry send is
\* attempted, so a process that dies during the send leaves the row on disk;
\* and a send that fails or raises leaves the row written, the rain counter
\* reset and the cycle successful.
RowBeforeSend ==
    [][SendStep =>
        /\ \E f \in FileNames : f[1] = now.day /\ files'[f].rows_this_minute >= 1
        /\ "send_killed" \notin events'
              => "row" \in events' /\ rain_count' = 0 /\ "cycle" \in events']_vars

\* is_within_operating_hours has returned
WindowReturned == ret # <<>> /\ call.op = "is_within_operating_hours"

MinuteOfDay(time) == time[1] * MinutesPerHour + time[2]

\* the last minute of an hour (":59")
LastOfHour == MinutesPerHour - 1

\* C13: for every window start and end and every minute of the day m,
\* is_within_operating_hours is true exactly when start <= m < end if
\* end > start, and when m >= start or m < end if end <= start; with the
\* window 22:00 to 06:00 the last minutes of 23h and of 05h are inside and
\* 07:00 is outside.
WindowMembership ==
    WindowReturned =>
        LET start == MinuteOfDay(call.start_time)
            end == MinuteOfDay(call.end_time)
            m == MinuteOfDay(call.at)
        IN  /\ ret[1] = IF end > start THEN start <= m /\ m < end
                        ELSE m >= start \/ m < end
            /\ (call.start_time = <<22, 0>> /\ call.end_time = <<6, 0>>) =>
                  /\ call.at \in {<<23, LastOfHour>>, <<5, LastOfHour>>} => ret[1]
                  /\ call.at = <<7, 0>> => ~ret[1]

\* the test has answered "inside" for the last minute before midnight in a
\* window that crosses midnight
WindowMembershipWitness ==
    /\ WindowReturned
    /\ call.start_time = <<22, 0>> /\ call.end_time = <<6, 0>>
    /\ call.at = <<23, LastOfHour>>
    /\ ret[1]

\* create_measurement_point has returned
PointReturned == ret # <<>> /\ call.op = "create_measurement_point"

\* the source value of key k is present in record d
Present(d, k) ==
    /\ k \in DOMAIN d
    /\ d[k] # None
    /\ k \in DOMAIN ThermistorField => d[k] # NaN

\* C14: the point built from a record has a field's key if and only if the
\* field's source value is present (not missing, not None and, for a
\* temperature channel, not NaN), every present field has its value
\* unchanged, and the point has no other field.
PointHasPresentFields ==
    PointReturned =>
        /\ \A k \in DOMAIN FieldOf :
              /\ FieldOf[k] \in DOMAIN ret[1] <=> Present(call.measurement_data, k)
              /\ Present(call.measurement_data, k)
                    => ret[1][FieldOf[k]] = call.measurement_data[k]
        /\ DOMAIN ret[1] \subseteq {FieldOf[k] : k \in DOMAIN FieldOf}

\* a point was built from a record with a None voltage, a NaN temperature,
\* a missing temperature and an irradiance: it has the irradiance only
PointHasPresentFieldsWitness ==
    /\ PointReturned
    /\ DOMAIN call.measurement_data = {"v0", "T0", "irradiance"}
    /\ call.measurement_data["v0"] = None
    /\ call.measurement_data["T0"] = NaN
    /\ DOMAIN ret[1] = {"irradiance"}
    /\ ret[1]["irradiance"] = 2

\* the cycle has dealt with a power meter whose read failed: the meter is
\* absent or all attempts were exhausted
PowerReadFailed ==
    /\ ret # <<>> /\ call.op = "power_fields"
    /\ (call.sensor = NoSensor \/ ~call.sensor.answers)

\* C15: in a recording cycle in which the power-meter read fails, the file
\* row has zero voltage, current, power and energy for that channel and the
\* telemetry point of the cycle has none of the channel's fields.
FailedReadZeroRowNoFields ==
    PowerReadFailed =>
        /\ ret[1].row = <<0, 0, 0, 0>>
        /\ DOMAIN ret[1].point \cap
              {"panel1_voltage", "panel1_current", "panel1_power", "panel1_energy"} = {}

\* calculate_average has returned
AverageReturned == ret # <<>> /\ call.op = "calculate_average"

\* the positions of the buffer that hold a valid value
ValidAt(data) == {i \in DOMAIN data : data[i] \notin {None, NaN}}

RECURSIVE SumAt(_, _)
SumAt(data, at) ==
    IF at = {} THEN 0
    ELSE LET i == CHOOSE j \in at : TRUE IN data[i] + SumAt(data, at \ {i})

\* C19: calculate_average returns "no data" (None, not zero) when the buffer
\* is empty or holds only None and NaN, and otherwise the arithmetic mean of
\* exactly its valid elements.
MeanOfValidOnly ==
    AverageReturned =>
        LET at == ValidAt(call.data_list)
        IN  IF at = {} THEN ret[1] = None
            ELSE ret[1] = <<SumAt(call.data_list, at), Cardinality(at)>>

\* the mean of a buffer with a NaN, a None and the number 2 is 2 / 1
MeanOfValidOnlyWitness ==
    /\ AverageReturned
    /\ call.data_list = <<NaN, 2, None>>
    /\ ret[1] = <<2, 1>>

\* how often the event e is in the trace of a send
Count(trace, e) == Cardinality({k \in DOMAIN trace : trace[k] = e})

\* a send has returned after its first write of the point failed
WriteFailed == sent # <<>> /\ sent[1].send.counted # None

\* the recoveries a failed write started, and the writes after the first
Recoveries == Count(sent[1].send.trace, "recover")

Retries == Count(sent[1].send.trace, "write") - 1

\* C16 as stated: a send whose write fails after MAX_CONSECUTIVE_FAILURES
\* sends in a row have returned False performs exactly one reconnect and
\* writes the point exactly once more, and a failed write that leaves the
\* counter below the threshold starts no reconnect.
ReconnectAfterFailedSends ==
    WriteFailed =>
        /\ sent[1].failed_before >= MAX_CONSECUTIVE_FAILURES =>
              Recoveries = 1 /\ Retries = 1
        /\ sent[1].send.counted < MAX_CONSECUTIVE_FAILURES => Recoveries = 0

\* C16: a send whose failed write brings the consecutive-failure counter to
\* MAX_CONSECUTIVE_FAILURES or more performs exactly one recovery of the
\* connection and, when the recovery succeeds, writes the same point exactly
\* once more (not at all when it does not); a failed write that leaves the
\* counter below the threshold starts no reconnect and no second write.
ReconnectAtThreshold ==
    WriteFailed =>
        IF sent[1].send.counted >= MAX_CONSECUTIVE_FAILURES
        THEN /\ Recoveries = 1
             /\ Retries = IF Count(sent[1].send.trace, "recovered") = 1 THEN 1 ELSE 0
             /\ Count(sent[1].send.trace, "recovered") = 1 =>
                    sink.influx_client /\ sink.write_api
        ELSE Recoveries = 0 /\ Retries = 0

\* the fifth failed write in a row is followed by one recovery and one more
\* write, which fails too
ReconnectAtThresholdWitness ==
    /\ WriteFailed
    /\ sent[1].before.consecutive_failures = MAX_CONSECUTIVE_FAILURES - 1
    /\ sent[1].send.trace = <<"write", "recover", "recovered", "write">>
    /\ ~sent[1].send.ret

\* C17: a send that returns True leaves the counter at zero and the
\* timestamp of the last success at the time of the send, and a send whose
\* write failed and that returns False leaves the counter one above its
\* value before the call.
SendUpdatesHealth ==
    sent # <<>> =>
        /\ sent[1].send.ret =>
              /\ sink.consecutive_failures = 0
              /\ sink.last_successful_write = sent[1].at
        /\ WriteFailed /\ ~sent[1].send.ret =>
              sink.consecutive_failures = sent[1].before.consecutive_failures + 1

InBatch == thread["main"].section = 1 /\ thread["main"].held

\* C20: at most one thread at a time is selecting channels and sampling,
\* and from the acquisition of the lock for the cycle's batch (thermistor
\* bank, irradiance pair, wind direction) to its release the sampler makes
\* no step of a read of its own.
ChannelExclusive ==
    [][/\ ~(thread["main"].held /\ thread["sampler"].held)'
       /\ InBatch /\ InBatch' => thread["sampler"]' = thread["sampler"]
                                  \/ ~thread["sampler"]'.held]_vars

\* the cycle is between the two channels of the irradiance pair while the
\* sampler waits for the lock
ChannelExclusiveWitness ==
    /\ InBatch
    /\ thread["main"].done = 2 * ThermistorChannels + 2
    /\ mux = 4
    /\ thread["sampler"].section = 1
    /\ ~thread["sampler"].held

\* a loop iteration in which a recording cycle zeroes a rain counter that
\* had counted pulses (a re-initialization zeroes it too and is set aside)
RainResetStep ==
    /\ CycleStep
    /\ "reinit" \notin events'
    /\ rain_count > 0
    /\ rain_count' = 0

\* C23: a recording cycle zeroes the minute's rain-pulse counter only when
\* the row that holds its value has been written to the file; a cycle whose
\* row write fails leaves the counter as it was.
RainResetAfterRow ==
    [][/\ RainResetStep => "row" \in events'
       /\ CycleStep /\ "cycle_failed" \in events' /\ "reinit" \notin events'
             => rain_count' = rain_count]_vars

\* a loop iteration that runs a cycle, and nothing before it, outside the
\* operating window or without an active recording
IdleCycleStep ==
    /\ CycleStep
    /\ "watchdog" \notin events'
    /\ \/ ~is_within_operating_hours(now)
       \/ ~file_recording_active
       \/ current_csv_file = NoFile

\* C24: a cycle outside the operating window, or with the recording flag
\* false or no active file, leaves the daily files, both checkpoint files
\* and the rain counter as they are, sends nothing, and returns True.
IdleCycleTouchesNothing ==
    [][IdleCycleStep =>
        /\ UNCHANGED <<files, modified, state_file, backup_state_file, rain_count>>
        /\ "row" \notin events'
        /\ events' \cap SendFaults = {}
        /\ "cycle" \in events']_vars

\* a cycle has run outside the window while the session was still recording
\* and pulses were counted
IdleCycleTouchesNothingWitness ==
    /\ pc = "sleep"
    /\ "cycle" \in events
    /\ ~is_within_operating_hours(now)
    /\ file_recording_active
    /\ rain_count > 0

\* an iteration of the loop, and the pause of the normal cadence after it
LoopStep == pc = "loop" /\ pc' = "sleep"

Cadence == IF is_within_operating_hours(now) THEN SLEEP_ACTIVE ELSE SLEEP_IDLE

\* what the iterations do with the counter, whatever else holds: a cycle that
\* succeeds zeroes it and one that fails adds one (when no exception reaches
\* the handler and nothing else of the iteration touches the counter); a
\* re-initialization is made only with the counter at the threshold and is
\* followed by the cooldown and the pause of the normal cadence; after a
\* successful one the counter is zero; an iteration without one that ends
\* normally pauses as the normal cadence says
CountsAndCoolsDown ==
    /\ CycleStep /\ "exception" \notin events' /\ "cycle" \in events'
          => consecutive_errors' = 0
    /\ CycleStep /\ "exception" \notin events' /\ "cycle" \notin events'
         /\ "watchdog" \notin events' /\ "reinit" \notin events'
          => consecutive_errors' = consecutive_errors + 1
    /\ LoopStep /\ "reinit" \in events'
          => /\ consecutive_errors + 1 >= MAX_CONSECUTIVE_ERRORS
             /\ sleep_for' = REINIT_SLEEP + Cadence
             /\ consecutive_errors' =
                    IF "reinitialized" \in events' THEN 0
                    ELSE IF consecutive_errors >= MAX_CONSECUTIVE_ERRORS
                    THEN consecutive_errors' ELSE MAX_CONSECUTIVE_ERRORS
    /\ LoopStep /\ "reinit" \notin events' /\ "exception" \notin events'
          => sleep_for' = Cadence

\* C25 as stated: the counter counts failed cycles and is zeroed by a
\* successful one, a re-initialization with its cooldown is made on exactly
\* the iterations on which the counter has reached MAX_CONSECUTIVE_ERRORS,
\* and a successful one leaves the counter zero and the normal cadence.
ReinitOnEveryThresholdIteration ==
    [][/\ CountsAndCoolsDown
       /\ LoopStep /\ consecutive_errors' >= MAX_CONSECUTIVE_ERRORS
             => "reinit" \in events']_vars

\* C25: the same, where the iterations on which the counter has reached the
\* threshold and a re-initialization must follow are those that do not end
\* in the loop's catch-all handler.
ReinitOnThresholdIteration ==
    [][/\ CountsAndCoolsDown
       /\ LoopStep /\ consecutive_errors' >= MAX_CONSECUTIVE_ERRORS
            /\ "exception" \notin events'
             => "reinit" \in events']_vars

\* the tenth consecutive error is a failed cycle, the hardware has been
\* re-initialized, and the cooldown is pending
ReinitOnThresholdIterationWitness ==
    /\ pc = "sleep"
    /\ {"cycle_failed", "reinit", "reinitialized"} \subseteq events
    /\ consecutive_errors = 0
    /\ sleep_for = REINIT_SLEEP + SLEEP_ACTIVE

\* main has been started
ProcessStarts == pc = "down" /\ events' \cap {"startup", "hardware_failed"} # {}

\* C22: no failure ends the process: a start reaches the loop whatever fails
\* in it, and an iteration of the loop in which a cycle fails, an exception
\* is raised or a re-initialization fails is followed by a pause and the next
\* iteration.
FailuresNeverExit ==
    [][/\ ProcessStarts => pc' = "sleep"
       /\ pc # "down" => pc' # "down"
       /\ LoopStep => sleep_for' > 0]_vars

RECURSIVE SumOf(_)
SumOf(numbers) == IF numbers = <<>> THEN 0 ELSE Head(numbers) + SumOf(Tail(numbers))

\* C26: a send writes only on a connection that exists and whose age is
\* below CONNECTION_REFRESH_HOURS; a connection of that age or more is
\* reconnected first, whatever the failure count; without a connection there
\* is a reconnect of at most 3 attempts, and when all fail the send returns
\* False without a write; one send makes a bounded number of connection
\* attempts.
SendOnFreshConnection ==
    sent # <<>> =>
        LET s == sent[1].send
            before == sent[1].before
        IN  /\ Count(s.trace, "write") > 0 =>
                  /\ s.entered.influx_client /\ s.entered.write_api
                  /\ ~needs_connection_refresh(s.entered, sent[1].at)
            /\ needs_connection_refresh(before, sent[1].at) => s.trace[1] = "refresh"
            /\ Count(s.trace, "reconnect") = 1 =>
                  /\ s.inits[2] \in 1 .. 3
                  /\ ~(s.entered.influx_client /\ s.entered.write_api) =>
                        ~s.ret /\ Count(s.trace, "write") = 0
            /\ SumOf(s.inits) <= 9

\* the reads of a batch and their cells have been computed
RowReturned == ret # <<>> /\ call.op = "row_cells"

\* C27: a failed read of a multiplexed input gives the missing value, and
\* every missing value is the N/A token in the row: the irradiance pair and
\* the wind direction of a failed read are missing and their cells are N/A,
\* and the cell of a thermistor channel without a valid mean is N/A.
FailedReadRendersNA ==
    RowReturned =>
        /\ call.irradiance # "reads" =>
              /\ ret[1].irradiance = <<None, None>>
              /\ ret[1].row.irradiance = NA
        /\ call.wind # "reads" =>
              /\ ret[1].wind = <<None, None>>
              /\ ret[1].row.wind_dir_str = NA
        /\ call.avg_thermistor \in {None, NaN} => ret[1].row.T0 = NA

\* C29: while a thread of the sender calls the store over the network (a
\* write, a health probe, a reconnect) it holds no lock: not hardware_lock,
\* not data_lock, not influx_lock.
NoLockAcrossNetwork == step.do = "network" => held = {}

\* C30: every assignment to the connection objects and to the health
\* globals of the sender is made while influx_lock is held.
MutationsUnderLock == step.do = "mutate" => "influx_lock" \in held

\* the last values of a history, at most capacity of them
Recent(history, capacity) ==
    IF Len(history) <= capacity THEN history
    ELSE SubSeq(history, Len(history) - capacity + 1, Len(history))

\* C28: every buffer holds at most its capacity (12 ambient temperature,
\* humidity and thermistor, 60 wind speed) and exactly the values appended
\* last, in order; the values of a thermistor buffer are within [10, 70]; a
\* thread that appends to the buffers or reads them holds data_lock.
BuffersBoundedRecent ==
    /\ \A b \in DOMAIN buffers :
          /\ Len(buffers[b]) <= maxlen[b]
          /\ buffers[b] = Recent(pushed[b], maxlen[b])
    /\ \A i \in DOMAIN buffers.T0 : buffers.T0[i] >= 10 /\ buffers.T0[i] <= 70
    /\ sampler.stage = "locked" => data_lock = "sampler"
    /\ reader = "locked" => data_lock = "main"

BuffersBoundedRecentWitness ==
    /\ Len(pushed.wind_speeds_second) > WindCapacity
    /\ Len(pushed.T0) > ThermistorCapacity
    /\ Len(pushed.dht_hums) > AmbientCapacity
    /\ reader = "locked"

\* where the shutdown did something (0 when it did not)
Position(done) ==
    IF \E i \in DOMAIN log : log[i] = done
    THEN CHOOSE i \in DOMAIN log : log[i] = done ELSE 0

\* what was done of both was done in this order
Ordered(first, second) ==
    (Position(first) > 0 /\ Position(second) > 0) => Position(first) < Position(second)

\* C21: after an operator interrupt the shutdown clears the run flag, waits
\* for the sampler (for a bounded time), flushes the session state, closes
\* the active file, closes the sink and releases the hardware, in this
\* order.
ShutdownInOrder ==
    /\ Ordered("flag", "join")
    /\ Ordered("join", "state")
    /\ Ordered("state", "file")
    /\ Ordered("file", "sink")
    /\ Ordered("sink", "hardware")

\* C35: the consecutive-failure counter of the sink equals the number of
\* sends that have returned False since the last send that returned True
\* (or since the first connection); only a successful send zeroes it.
CounterCountsFailedSends ==
    failed_sends < MAX_CONSECUTIVE_FAILURES => sink.consecutive_failures = failed_sends

\* an iteration of the loop that begins and ends with the session recording
\* and is not the start-of-day file creation
RecordingStep ==
    /\ pc = "loop" /\ pc' = "sleep"
    /\ file_recording_active /\ file_recording_active'
    /\ is_within_operating_hours(now)
    /\ "start_minute" \notin events'

\* C33: while the session stays recording within one operating window the
\* daily rain-pulse total never decreases; only the start-of-day file
\* creation zeroes it, not a hardware re-initialization and not the
\* re-creation of a missing file inside a measurement cycle.
DailyRainTotalKept ==
    [][RecordingStep => rain_count_total' >= rain_count_total]_vars

\* C31: the rain value of a row is the number of pulses of the minute before
\* it.  The row carries rain_count, which only a row and initialize_hardware
\* zero: when recording begins or resumes the counter holds no pulse counted
\* before, so that none is added to the first row.
RainOfRowIsOfItsMinute ==
    [][(~file_recording_active /\ file_recording_active') => rain_count' = 0]_vars

\* the process starts inside the window on the day on which an orderly
\* shutdown inside the window closed the session
RestartAfterShutdown ==
    /\ pc = "down" /\ pc' = "sleep"
    /\ closed_file # NoFile /\ closed_file[1] = now.day
    /\ is_within_operating_hours(now)

\* C39: after an orderly shutdown inside the window a restart inside the
\* same window on the same day takes up the daily file that was active
\* before the shutdown, records into it, and creates no file.
RestartContinuesFile ==
    [][RestartAfterShutdown =>
          /\ current_csv_file' = closed_file
          /\ file_recording_active'
          /\ "created" \notin events'
          /\ files' = files]_vars

\* the process has restarted in the window after the shutdown of the same
\* day and has written a row into the file the shutdown closed
RestartContinuesFileWitness ==
    /\ pc = "sleep" /\ "row" \in events
    /\ closed_file # NoFile /\ closed_file[1] = now.day
    /\ current_csv_file = closed_file
    /\ file_recording_active /\ is_within_operating_hours(now)

\* C38: whatever the sink does during a send, the cycle that sends is over
\* in time for the next minute: a cycle begun at second 0 has returned, and
\* the loop has slept its second, before the next minute's seconds in which
\* a cycle may begin are over, so that the next minute gets its cycle and
\* its row.
SendLeavesNextMinute ==
    sent # <<>> =>
        sent[1].seconds + SLEEP_ACTIVE < SecondsPerMinute + CYCLE_SECOND_LIMIT

\* C36: when the store could not be reached at the start of the process and
\* can be reached later, then, unless it becomes unreachable again, a later
\* cycle delivers a point, without a restart of the process.
ForwardingBegins ==
    (forwarding.up /\ ~forwarding.influx_initialized /\ forwarding.reachable)
        ~> (forwarding.delivered \/ ~forwarding.reachable)

\* C37: when a signal has stopped giving valid samples, the rows' value for
\* it becomes the not-available token after some time, instead of the mean
\* of the old samples for ever.
StaleValueBecomesNoData ==
    aging.dead ~> (aging.dead /\ aging.cell = <<NA>>)

\* C32: no rain pulse is lost or counted twice: whenever neither the
\* callback nor the cycle is in the middle of its work, the pulses reported
\* in the rows written so far plus the minute's counter are the pulses the
\* callback has counted.
RainPulsesConserved ==
    (pulses.cycle = "idle" /\ pulses.callback = "idle") =>
        pulses.reported + pulses.rain_count = pulses.counted

\* C34: no thread holds hardware_lock while the main thread is inside
\* initialize_hardware: the hardware is never re-initialized under a
\* multiplexed read of the sampler.
NoReinitUnderRead ==
    hardware.phase > 0 => hardware_lock = "free"

\* C40: no thread holds two of the three locks at once, no thread takes a
\* lock it holds, and a thread that waits for a lock waits for a thread
\* that is itself not waiting, so that the lock will be released and no
\* set of threads waits for one another.
NoDeadlockOnLocks ==
    \A t \in Threads :
        /\ Cardinality(held_by(locks, t)) <= 1
        /\ at_step(locks, t).do = "acquire" =>
               /\ held_by(locks, t) = {}
               /\ locks.owner[at_step(locks, t).what] # t
        /\ blocked(locks, t) =>
               ~blocked(locks, locks.owner[at_step(locks, t).what])

\* the main thread waits for the lock of the buffers, which the sampler
\* holds
NoDeadlockOnLocksWitness ==
    /\ blocked(locks, "main")
    /\ at_step(locks, "main").what = "data_lock"
    /\ locks.owner["data_lock"] = "sampler"
    /\ locks.influx_initialized
====
